---- MODULE Spec2Model ----
(***************************************************************************)
(* Model of openstack-snapsentry: the snapshot scheduling and retention    *)
(* engine (models/frequency.py, models/metadata.py, snapshot.py,           *)
(* orchestrator.py, volume.py).                                            *)
(*                                                                         *)
(* Time is counted in whole hours since 2023-01-01T00:00Z (a Sunday).      *)
(* A ZonedDateTime is a record [plain, tz]: the wall-clock reading in      *)
(* hours since the epoch and the zone it is read in.  An Instant is the    *)
(* number of hours since the epoch in UTC.                                 *)
(***************************************************************************)
EXTENDS Integers, Sequences, FiniteSets, TLC

VARIABLES
    now,        \* the wall clock: the value Instant.now() returns
    policy,     \* due calculation: the policy under evaluation
    decision,   \* due calculation: the SnapshotSchedule returned (or the exception)
    duePc,      \* due calculation: "input" before the call, "done" after
    winArgs,    \* window check: the fetched snapshots, the class and the schedule
    winResult,  \* window check: what _snapshot_exists_in_window returned
    winPc,      \* window check: "input" before the call, "done" after
    volumes,    \* the cloud: the volumes of the project, in listing order
    snapshots,  \* the cloud: the set of volume snapshots
    nextId,     \* the cloud: the id the next created snapshot gets
    workflow,   \* the invocation: "none", "snapshot" or "expiry"
    pc,         \* the invocation: "idle", "create", "expiry", "done" or "raised"
    work,       \* the invocation: the listed volumes or snapshots being iterated
    idx,        \* the invocation: position in work
    fi,         \* the invocation: position in SnapshotFrequency.all() for the current volume
    counts,     \* the invocation: success/skip/error counters of process_volume_snapshots
    last,       \* the invocation: what happened to the item processed last
    processed,  \* the invocation: the volumes or snapshots whose processing ended, in order
    ncalls,     \* the invocation: the number of mutating cloud calls issued so far
    codecPc,    \* tag codec: "encode", "decode" or "scan" before the call, "done" after
    subscription,   \* tag codec: the VolumeSubscriptionInfo to encode, if one is given
    volumeMetadata, \* tag codec: the tags of the volume (volume.metadata)
    decoded,        \* tag codec: what _parse_subscription returned (or the exception)
    projectVolumes, \* volume scan: the volumes of the project with their tags, in listing order
    subscribed,     \* volume scan: what get_volumes_with_snapshot_subscription returned
    raced,          \* overlapping invocations: the (volume, class) item they process
    racers,         \* overlapping invocations: where each one is in _create_snapshot_if_due
    overlaps,       \* overlapping invocations: the pairs that were in flight together
    stampPc,        \* retention tags: "input" before _generate_metadata is applied, "done" after
    stamped,        \* retention tags: the tags _generate_metadata returned
    modPc,          \* subscription update: "input" before modify_snapsentry_subscription, "done" after
    modTags,        \* subscription update: the snapsentry tags on the volume in the cloud
    modResult,      \* subscription update: how modify_snapsentry_subscription ended
    connPc,         \* connect: "attempt", "sleep", "returned" or "raised"
    max_retries,    \* connect: OpenstackConnectionManager.max_retries
    attempt,        \* connect: the loop variable of connect()
    waits,          \* connect: the arguments of the time.sleep calls made, in order
    outcomes        \* connect: how each connection attempt made so far ended, in order

dueVars == <<policy, decision, duePc>>
winVars == <<winArgs, winResult, winPc>>
cloudVars == <<volumes, snapshots, nextId>>
runVars == <<workflow, pc, work, idx, fi, counts, last, processed, ncalls>>
codecVars == <<codecPc, subscription, volumeMetadata, decoded, projectVolumes, subscribed>>
raceVars == <<raced, racers, overlaps>>
stampVars == <<stampPc, stamped>>
modVars == <<modPc, modTags, modResult>>
connVars == <<connPc, max_retries, attempt, waits, outcomes>>
vars == <<now, policy, decision, duePc, winArgs, winResult, winPc, volumes, snapshots, nextId,
          workflow, pc, work, idx, fi, counts, last, processed, ncalls,
          codecPc, subscription, volumeMetadata, decoded, projectVolumes, subscribed,
          raced, racers, overlaps, stampPc, stamped, modPc, modTags, modResult,
          connPc, max_retries, attempt, waits, outcomes>>

----------------------------------------------------------------------------
(* Bounds of the model *)

\* number of consecutive UTC days, starting at FirstDay, the clock ranges over
NumDays == 2

\* number of volumes in the project
NumVolumes == 4

\* the largest snapshot id the cloud hands out
MaxSnapshots == 3

\* the longest list of fetched snapshots the window check is tried on
MaxListed == 2

----------------------------------------------------------------------------
(* Calendar arithmetic (datetime / calendar / whenever) *)

Years == 2023..2026

Leap(y) == (y % 4 = 0 /\ y % 100 # 0) \/ y % 400 = 0

DaysInYear(y) == IF Leap(y) THEN 366 ELSE 365

\* calendar.monthrange(y, m)[1]
DaysInMonth(y, m) ==
    IF m \in {4, 6, 9, 11} THEN 30
    ELSE IF m = 2 THEN (IF Leap(y) THEN 29 ELSE 28)
    ELSE 31

RECURSIVE DaysBeforeYear(_)
DaysBeforeYear(y) == IF y <= 2023 THEN 0 ELSE DaysBeforeYear(y - 1) + DaysInYear(y - 1)

RECURSIVE DaysBeforeMonth(_, _)
DaysBeforeMonth(y, m) == IF m <= 1 THEN 0 ELSE DaysBeforeMonth(y, m - 1) + DaysInMonth(y, m - 1)

\* the day number (days since the epoch) of the calendar date y-m-d
DateToDay(y, m, d) == DaysBeforeYear(y) + DaysBeforeMonth(y, m) + (d - 1)

\* the calendar date of a day number
DayToDate(n) ==
    LET y == CHOOSE yy \in Years : DaysBeforeYear(yy) <= n /\ n < DaysBeforeYear(yy) + DaysInYear(yy)
        r == n - DaysBeforeYear(y)
        m == CHOOSE mm \in 1..12 : DaysBeforeMonth(y, mm) <= r /\ r < DaysBeforeMonth(y, mm) + DaysInMonth(y, mm)
    IN  [year |-> y, month |-> m, day |-> r - DaysBeforeMonth(y, m) + 1]

\* now.py_datetime().date(): the UTC calendar day of an instant
DayOf(t) == t \div 24

HourOf(t) == t % 24

\* datetime.weekday(): Monday is 0; day 0 of the epoch is a Sunday
Weekday(n) == (n + 6) % 7

\* calendar.day_name[i].lower()
DayName(i) ==
    CASE i = 0 -> "monday" [] i = 1 -> "tuesday" [] i = 2 -> "wednesday"
      [] i = 3 -> "thursday" [] i = 4 -> "friday" [] i = 5 -> "saturday"
      [] OTHER -> "sunday"

DayNames == {"sunday", "monday", "tuesday", "wednesday", "thursday", "friday", "saturday"}

----------------------------------------------------------------------------
(* Time zones (whenever.available_timezones, ZonedDateTime) *)

\* the IANA zones of the model; none of them observes daylight saving
Timezones == {"UTC", "Asia/Tokyo", "Pacific/Kiritimati", "Pacific/Honolulu"}

\* a zone that observes daylight saving: clocks go one hour forward at 01:00 UTC
\* on the last Sunday of March and back at 01:00 UTC on the last Sunday of October
DstZones == {"Europe/Berlin"}

\* standard UTC offset of a zone in hours
UtcOffset(tz) ==
    CASE tz = "Asia/Tokyo" -> 9
      [] tz = "Pacific/Kiritimati" -> 14
      [] tz = "Pacific/Honolulu" -> 0 - 10
      [] tz = "Europe/Berlin" -> 1
      [] OTHER -> 0

\* the last Sunday of a month, as a day number
LastSunday(year, month) ==
    CHOOSE d \in (DateToDay(year, month, DaysInMonth(year, month)) - 6)..DateToDay(year, month, DaysInMonth(year, month)) :
        Weekday(d) = 6

\* daylight saving is in force in zone tz at instant t
InDst(tz, t) ==
    /\ tz \in DstZones
    /\ t >= LastSunday(DayToDate(DayOf(t)).year, 3) * 24 + 1
    /\ t < LastSunday(DayToDate(DayOf(t)).year, 10) * 24 + 1

\* UTC offset of zone tz at instant t
OffsetAt(tz, t) == UtcOffset(tz) + (IF InDst(tz, t) THEN 1 ELSE 0)

\* UTC offset of zone tz at the wall-clock reading plain; a reading the clocks
\* show twice takes the earlier instant, a reading they skip is moved forward
OffsetOfLocal(tz, plain) ==
    IF InDst(tz, plain - (UtcOffset(tz) + 1)) THEN UtcOffset(tz) + 1 ELSE UtcOffset(tz)

\* PlainDateTime.assume_tz(tz): attach a zone to a wall-clock reading
assume_tz(plain, tz) == [plain |-> plain, tz |-> tz]

\* ZonedDateTime.to_instant(): the instant a zoned reading denotes
to_instant(z) == z.plain - OffsetOfLocal(z.tz, z.plain)

to_tz_relabel(z, tz) == [plain |-> z.plain, tz |-> tz]

\* ZonedDateTime.to_tz(tz): the same instant read in another zone
to_tz(z, tz) == [plain |-> to_instant(z) + OffsetAt(tz, to_instant(z)), tz |-> tz]

\* ZonedDateTime.add(days=n): n calendar days later at the same wall-clock time
add_days(z, n) == [plain |-> z.plain + 24 * n, tz |-> z.tz]

\* ZonedDateTime.add(months=n): the same day-of-month n months later,
\* clamped to the last day of a shorter month
add_months(z, n) ==
    LET d  == DayToDate(DayOf(z.plain))
        k  == (d.month - 1) + n
        y  == d.year + (k \div 12)
        m  == (k % 12) + 1
        dd == IF d.day > DaysInMonth(y, m) THEN DaysInMonth(y, m) ELSE d.day
    IN  [plain |-> DateToDay(y, m, dd) * 24 + HourOf(z.plain), tz |-> z.tz]

\* a ZonedDateTime field that was not supplied
MissingZdt == [plain |-> 0 - 1, tz |-> "missing"]

----------------------------------------------------------------------------
(* models/frequency.py: policies and the due calculation *)

Frequencies == <<"daily", "weekly", "monthly">>

FrequencySet == {"daily", "weekly", "monthly"}

\* the SnapshotSchedule constructor: scheduled_time_utc and scheduled_time_local
\* are required fields, so leaving one out raises a pydantic ValidationError
SnapshotSchedule(is_due, utc, local, reason) ==
    IF utc = MissingZdt \/ local = MissingZdt
    THEN [raised |-> "ValidationError", is_due |-> FALSE,
          scheduled_time_utc |-> MissingZdt, scheduled_time_local |-> MissingZdt,
          reason |-> "none"]
    ELSE [raised |-> "none", is_due |-> is_due,
          scheduled_time_utc |-> utc, scheduled_time_local |-> local,
          reason |-> reason]

\* an exception leaving the due calculation
RaisedSchedule(exc) ==
    [raised |-> exc, is_due |-> FALSE,
     scheduled_time_utc |-> MissingZdt, scheduled_time_local |-> MissingZdt,
     reason |-> "none"]

\* no call was made yet
NoDecision == RaisedSchedule("pending")

\* the None that should_create_snapshot returns in place of a schedule
NoSchedule == RaisedSchedule("none")

compute_scheduled_times_utc(p, t) ==
    LET today               == DayOf(t)
        scheduled_timeframe == today * 24 + p.start_time
        local_time          == assume_tz(scheduled_timeframe, "UTC")
    IN  [utc |-> local_time, local |-> local_time]

\* BaseSnapshotPolicy.compute_scheduled_times
compute_scheduled_times(p, t) ==
    LET today               == DayOf(t)
        scheduled_timeframe == today * 24 + p.start_time
        local_time          == assume_tz(scheduled_timeframe, p.timezone)
        utc_time            == to_tz(local_time, "UTC")
    IN  [utc |-> utc_time, local |-> local_time]

timeframe_validation_strict(p, t) ==
    LET s == compute_scheduled_times(p, t)
    IN  SnapshotSchedule(t > to_instant(s.utc), s.utc, s.local, "none")

\* BaseSnapshotPolicy.timeframe_validation
timeframe_validation(p, t) ==
    LET s == compute_scheduled_times(p, t)
    IN  SnapshotSchedule(t >= to_instant(s.utc), s.utc, s.local, "none")

\* the reason string set by the three is_snapshot_due methods once the day gate passed
WithWindowReason(is_time) ==
    IF is_time.raised # "none" THEN is_time
    ELSE [is_time EXCEPT !.reason = IF is_time.is_due THEN "window matched" ELSE "window mismatch"]

\* DailySnapshotSchedule.is_snapshot_due
DailyIsSnapshotDue(p, t) == WithWindowReason(timeframe_validation(p, t))

\* WeeklySnapshotSchedule.is_snapshot_due
WeeklyIsSnapshotDue(p, t) ==
    LET current_weekday == DayName(Weekday(DayOf(t)))
    IN  IF current_weekday # p.start_day
        THEN SnapshotSchedule(FALSE, MissingZdt, MissingZdt, "day mismatch")
        ELSE WithWindowReason(timeframe_validation(p, t))

MonthlyIsSnapshotDue_no_clamp(p, t) ==
    LET today   == DayToDate(DayOf(t))
        is_time == timeframe_validation(p, t)
    IN  IF today.day # p.start_date
        THEN SnapshotSchedule(FALSE, MissingZdt, MissingZdt, "day mismatch")
        ELSE WithWindowReason(is_time)

\* MonthlySnapshotSchedule.is_snapshot_due: replace(day=start_date) is applied to
\* the scheduled UTC reading and raises ValueError when its month has no such
\* day; the fallback replaces with the length of today's month, outside any try
MonthlyIsSnapshotDue(p, t) ==
    LET today     == DayToDate(DayOf(t))
        is_time   == timeframe_validation(p, t)
        sched     == DayToDate(DayOf(is_time.scheduled_time_utc.plain))
        schedLen  == DaysInMonth(sched.year, sched.month)
        last_date == DaysInMonth(today.year, today.month)
    IN  IF p.start_date <= schedLen
        THEN IF today.day # p.start_date
             THEN SnapshotSchedule(FALSE, MissingZdt, MissingZdt, "day mismatch")
             ELSE WithWindowReason(is_time)
        ELSE IF last_date > schedLen
             THEN RaisedSchedule("ValueError")
             ELSE IF today.day # last_date
                  THEN SnapshotSchedule(FALSE, MissingZdt, MissingZdt, "day mismatch")
                  ELSE WithWindowReason(is_time)

\* the due calculation of a policy of any class
is_snapshot_due(p, t) ==
    CASE p.class = "daily"  -> DailyIsSnapshotDue(p, t)
      [] p.class = "weekly" -> WeeklyIsSnapshotDue(p, t)
      [] OTHER              -> MonthlyIsSnapshotDue(p, t)

----------------------------------------------------------------------------
(* models/metadata.py, snapshot.py: snapshots and their retention tags *)

\* a tag value holding an ISO-8601 timestamp: the text written for an instant
FormatIso(t) == [text |-> "iso", value |-> t]

\* a tag value holding the decimal text of an integer: str(n)
FormatInt(n) == [text |-> "int", value |-> n]

\* a tag that is not set, and a tag whose text is no timestamp
AbsentTag == [text |-> "absent", value |-> 0]
MalformedTag == [text |-> "malformed", value |-> 0]

\* a snapshot carrying no snapsentry tag at all
NoTags ==
    [managed |-> "absent", frequency_type |-> "absent", retention_days |-> AbsentTag,
     retention_type |-> "absent", expiry |-> AbsentTag, expiry_zoned |-> AbsentTag]

generate_snapshot_name_utc(volume_id, frequency, schedule) ==
    [prefix |-> "managed", frequency |-> frequency, volume_id |-> volume_id,
     timestamp |-> schedule.scheduled_time_utc]

\* SnapshotManager._generate_snapshot_name
generate_snapshot_name(volume_id, frequency, schedule) ==
    [prefix |-> "managed", frequency |-> frequency, volume_id |-> volume_id,
     timestamp |-> schedule.scheduled_time_local]

generate_metadata_local(frequency, schedule, retention_days) ==
    LET expiry_zoned == add_days(schedule.scheduled_time_local, retention_days)
    IN  [managed |-> "true", frequency_type |-> frequency,
         retention_days |-> FormatInt(retention_days), retention_type |-> "time",
         expiry |-> FormatIso(expiry_zoned.plain),
         expiry_zoned |-> FormatIso(to_instant(expiry_zoned))]

\* SnapshotManager._generate_metadata
generate_metadata(frequency, schedule, retention_days) ==
    LET expiry_zoned == add_days(schedule.scheduled_time_local, retention_days)
        expiry_utc   == to_instant(add_days(schedule.scheduled_time_utc, retention_days))
    IN  [managed |-> "true", frequency_type |-> frequency,
         retention_days |-> FormatInt(retention_days), retention_type |-> "time",
         expiry |-> FormatIso(expiry_utc),
         expiry_zoned |-> FormatIso(to_instant(expiry_zoned))]

\* SnapshotMetadata(**snapshot.metadata): TRUE when pydantic accepts the tags.
\* The expiry fields are plain strings: any text passes, only absence fails.
SnapshotMetadataDecodes(tags) ==
    /\ tags.managed \in {"true", "false"}
    /\ tags.expiry.text # "absent"
    /\ tags.expiry_zoned.text # "absent"
    /\ tags.retention_days.text # "absent"
    /\ tags.retention_type \in {"absent", "time", "count"}
    /\ tags.frequency_type \in FrequencySet

is_expired_strict(tags, t) ==
    IF tags.expiry.text # "iso" THEN "raise"
    ELSE IF t > tags.expiry.value THEN "expired" ELSE "active"

\* SnapshotMetadata.is_expired() of decoded tags at instant t:
\* "raise" when the expiry text is no timestamp, else now >= expiry
is_expired(tags, t) ==
    IF tags.expiry.text # "iso" THEN "raise"
    ELSE IF t >= tags.expiry.value THEN "expired" ELSE "active"

\* the snapshots of a set, as the sequence a listing returns (by id)
RECURSIVE ById(_)
ById(S) ==
    IF S = {} THEN <<>>
    ELSE LET s == CHOOSE x \in S : \A y \in S : x.id <= y.id
         IN  <<s>> \o ById(S \ {s})

get_existing_managed_snapshots_any_class(S, volume_id, frequency, listOk) ==
    IF ~listOk THEN <<>>
    ELSE ById({s \in S : /\ s.volume_id = volume_id
                          /\ s.tags.managed = "true"
                          /\ s.tags.frequency_type \notin FrequencySet})

\* SnapshotScheduler._get_existing_managed_snapshots: a failed listing is logged
\* and answered with the empty list
get_existing_managed_snapshots(S, volume_id, frequency, listOk) ==
    IF ~listOk THEN <<>>
    ELSE ById({s \in S : /\ s.volume_id = volume_id
                          /\ s.tags.managed = "true"
                          /\ s.tags.frequency_type = frequency})

\* SnapshotScheduler._parse_snapshot_time
parse_snapshot_time(created_at) == assume_tz(created_at, "UTC")

\* the window_end_map of _snapshot_exists_in_window
window_end(window_start, frequency) ==
    CASE frequency = "daily"  -> add_days(window_start, 1)
      [] frequency = "weekly" -> add_days(window_start, 7)
      [] OTHER                -> add_months(window_start, 1)

snapshot_exists_in_window_open(managed_snapshots, frequency, schedule) ==
    IF managed_snapshots = <<>> THEN FALSE
    ELSE LET ws == schedule.scheduled_time_utc
             we == window_end(ws, frequency)
         IN  \E i \in 1..Len(managed_snapshots) :
                LET snapshot_time == parse_snapshot_time(managed_snapshots[i].created_at)
                IN  /\ to_instant(ws) <= to_instant(snapshot_time)
                    /\ to_instant(snapshot_time) < to_instant(we)

\* SnapshotScheduler._snapshot_exists_in_window, on the list it fetched
snapshot_exists_in_window(managed_snapshots, frequency, schedule) ==
    IF managed_snapshots = <<>> THEN FALSE
    ELSE LET ws == schedule.scheduled_time_utc
             we == window_end(ws, frequency)
         IN  \E i \in 1..Len(managed_snapshots) :
                LET snapshot_time == parse_snapshot_time(managed_snapshots[i].created_at)
                IN  /\ to_instant(ws) <= to_instant(snapshot_time)
                    /\ to_instant(snapshot_time) <= to_instant(we)

----------------------------------------------------------------------------
(* snapshot.py: the create decision and create-with-metadata *)

\* policy.get_schedule(): the schedule decision of the policy at instant t
get_schedule(p, t) == is_snapshot_due(p, t)

\* SnapshotScheduler._get_policy
get_policy(volume, frequency) ==
    CASE frequency = "daily"  -> volume.snapshot_policy_daily
      [] frequency = "weekly" -> volume.snapshot_policy_weekly
      [] OTHER                -> volume.snapshot_policy_monthly

\* SnapshotScheduler.should_create_snapshot; listed is what the dedup listing returns
should_create_snapshot(volume, frequency, listed, t) ==
    LET p == get_policy(volume, frequency)
    IN  IF p.class = "none" \/ ~p.is_enabled
        THEN [raised |-> "none", create |-> FALSE, why |-> "disabled", schedule |-> NoSchedule]
        ELSE LET Decide(schedule) ==
                     IF schedule.raised # "none"
                     THEN [raised |-> schedule.raised, create |-> FALSE, why |-> "raised",
                           schedule |-> NoSchedule]
                     ELSE IF ~schedule.is_due
                     THEN [raised |-> "none", create |-> FALSE, why |-> "not due",
                           schedule |-> schedule]
                     ELSE IF snapshot_exists_in_window(listed, frequency, schedule)
                     THEN [raised |-> "none", create |-> FALSE, why |-> "exists",
                           schedule |-> schedule]
                     ELSE [raised |-> "none", create |-> TRUE, why |-> "due",
                           schedule |-> schedule]
             IN  Decide(get_schedule(p, t))

\* what the create call of the cloud can do: return the snapshot, fail before
\* anything exists, or fail (time out waiting) after the snapshot exists
CreateResults == {"ok", "fail", "fail_orphan"}

Call(op, snapshot_id, volume_id, ok) ==
    [op |-> op, snapshot |-> snapshot_id, volume |-> volume_id, ok |-> ok]

clean_up_snapshot_noop(S, snapshot_id, delOk) == S

\* SnapshotManager._clean_up_snapshot: the delete call removes the snapshot when it
\* goes through; when it fails the error is logged and nothing is raised
clean_up_snapshot(S, snapshot_id, delOk) ==
    IF delOk THEN {x \in S : x.id # snapshot_id} ELSE S

create_snapshot_with_metadata_no_rollback(S, id, volume_id, frequency, schedule, retention_days, t, createRes, tagOk, delOk) ==
    LET name     == generate_snapshot_name(volume_id, frequency, schedule)
        metadata == generate_metadata(frequency, schedule, retention_days)
        snapshot == [id |-> id, volume_id |-> volume_id, created_at |-> t,
                     name |-> name, tags |-> NoTags]
        create   == Call("create", id, volume_id, createRes = "ok")
    IN  CASE createRes = "fail" ->
               [snapshots |-> S, calls |-> <<create>>, exc |-> "SDKException"]
          [] createRes = "fail_orphan" ->
               [snapshots |-> S \cup {snapshot}, calls |-> <<create>>, exc |-> "SDKException"]
          [] createRes = "ok" /\ tagOk ->
               [snapshots |-> S \cup {[snapshot EXCEPT !.tags = metadata]},
                calls |-> <<create, Call("set_metadata", id, volume_id, TRUE)>>,
                exc |-> "none"]
          [] OTHER ->
               [snapshots |-> S \cup {snapshot},
                calls |-> <<create, Call("set_metadata", id, volume_id, FALSE)>>,
                exc |-> "none"]

\* SnapshotManager.create_snapshot_with_metadata at instant t, with the outcome of
\* each cloud call given; calls are the cloud calls it issues, exc what it raises
create_snapshot_with_metadata(S, id, volume_id, frequency, schedule, retention_days, t, createRes, tagOk, delOk) ==
    LET name     == generate_snapshot_name(volume_id, frequency, schedule)
        metadata == generate_metadata(frequency, schedule, retention_days)
        snapshot == [id |-> id, volume_id |-> volume_id, created_at |-> t,
                     name |-> name, tags |-> NoTags]
        create   == Call("create", id, volume_id, createRes = "ok")
    IN  CASE createRes = "fail" ->
               [snapshots |-> S, calls |-> <<create>>, exc |-> "SDKException"]
          [] createRes = "fail_orphan" ->
               [snapshots |-> S \cup {snapshot}, calls |-> <<create>>, exc |-> "SDKException"]
          [] createRes = "ok" /\ tagOk ->
               [snapshots |-> S \cup {[snapshot EXCEPT !.tags = metadata]},
                calls |-> <<create, Call("set_metadata", id, volume_id, TRUE)>>,
                exc |-> "none"]
          [] OTHER ->
               \* _inject_metadata raised: _clean_up_snapshot, then SnapshotCreationError;
               \* a failed delete is logged by _clean_up_snapshot and not raised
               [snapshots |-> clean_up_snapshot(S \cup {snapshot}, id, delOk),
                calls |-> <<create, Call("set_metadata", id, volume_id, FALSE),
                            Call("delete", id, volume_id, delOk)>>,
                exc |-> "SnapshotCreationError"]

----------------------------------------------------------------------------
(* The resting values of the state *)

NoPolicy ==
    [class |-> "none", is_enabled |-> FALSE, start_time |-> 0, timezone |-> "UTC",
     retention_days |-> 0, start_day |-> "sunday", start_date |-> 1]

ZeroCounts == [created |-> 0, skipped |-> 0, errors |-> 0]

NoOutcome == [kind |-> "none"]

DueIdle ==
    /\ policy = NoPolicy
    /\ decision = NoDecision
    /\ duePc = "off"

WinIdle ==
    /\ winArgs = [listed |-> <<>>, frequency |-> "daily", schedule |-> NoSchedule]
    /\ winResult = FALSE
    /\ winPc = "off"

RunIdle ==
    /\ pc = "idle"
    /\ workflow = "none"
    /\ work = <<>>
    /\ idx = 1
    /\ fi = 1
    /\ counts = ZeroCounts
    /\ last = NoOutcome
    /\ processed = <<>>
    /\ ncalls = 0

CloudIdle ==
    /\ volumes = <<>>
    /\ snapshots = {}
    /\ nextId = 1

\* None in the place of a policy or of a subscription
None == [class |-> "None"]

\* no call of the codec was made yet
NoDecoded == [raised |-> "pending", value |-> None]

CodecIdle ==
    /\ codecPc = "off"
    /\ subscription = None
    /\ volumeMetadata = None
    /\ decoded = NoDecoded
    /\ projectVolumes = <<>>
    /\ subscribed = <<>>

RaceIdle ==
    /\ raced = [volume |-> 1, frequency |-> "daily"]
    /\ racers = <<>>
    /\ overlaps = {}

StampIdle ==
    /\ stampPc = "off"
    /\ stamped = NoTags

\* modify_snapsentry_subscription was not called yet
NoModResult == [status |-> "pending", call |-> "none"]

ModIdle ==
    /\ modPc = "off"
    /\ modTags = None
    /\ modResult = NoModResult

ConnIdle ==
    /\ connPc = "off"
    /\ max_retries = 0
    /\ attempt = 0
    /\ waits = <<>>
    /\ outcomes = <<>>

----------------------------------------------------------------------------
(* The due calculation applied to bounded inputs *)

\* 2024-01-30, a Tuesday
FirstDay == DateToDay(2024, 1, 30)

ClockDays == FirstDay..(FirstDay + NumDays - 1)

\* days around the end of a 29-day and of a 30-day month
MonthEndDays ==
    {DateToDay(2024, 2, 28), DateToDay(2024, 2, 29), DateToDay(2024, 3, 1),
     DateToDay(2024, 4, 30), DateToDay(2024, 5, 1)}

ClockInstants == {d * 24 + h : d \in ClockDays \cup MonthEndDays, h \in 0..23}

StartTimes == {0, 9, 19, 23}

DailyPolicies ==
    {[class |-> "daily", is_enabled |-> TRUE, start_time |-> s, timezone |-> z,
      retention_days |-> 7, start_day |-> "sunday", start_date |-> 1]
        : s \in StartTimes, z \in Timezones}

WeeklyPolicies ==
    {[class |-> "weekly", is_enabled |-> TRUE, start_time |-> s, timezone |-> z,
      retention_days |-> 30, start_day |-> d, start_date |-> 1]
        : s \in {9}, z \in Timezones, d \in {"tuesday", "wednesday"}}

MonthlyPolicies ==
    {[class |-> "monthly", is_enabled |-> TRUE, start_time |-> s, timezone |-> z,
      retention_days |-> 90, start_day |-> "sunday", start_date |-> d]
        : s \in {9, 19}, z \in Timezones, d \in {1, 30, 31}}

DueInit ==
    /\ now \in ClockInstants
    /\ policy \in DailyPolicies \cup WeeklyPolicies \cup MonthlyPolicies
    /\ decision = NoDecision
    /\ duePc = "input"
    /\ WinIdle
    /\ CloudIdle
    /\ RunIdle
    /\ CodecIdle
    /\ RaceIdle
    /\ StampIdle
    /\ ModIdle
    /\ ConnIdle

\* one call of policy.is_snapshot_due() at instant now
EvaluateDue ==
    /\ duePc = "input"
    /\ decision' = is_snapshot_due(policy, now)
    /\ duePc' = "done"
    /\ UNCHANGED <<stampVars, modVars, connVars, now, codecVars, raceVars, policy, winVars, cloudVars, runVars>>

DueNext == EvaluateDue

SpecDue == DueInit /\ [][DueNext]_vars

----------------------------------------------------------------------------
(* volume.py: the subscribed-volume scan *)

\* VolumeRepository.get_volumes_with_snapshot_subscription on the listed volumes:
\* a volume whose tags do not decode is logged and left out, as is one whose
\* volume-level flag is off
get_volumes_with_snapshot_subscription(vs) ==
    SelectSeq(vs, LAMBDA v : v.decodes /\ v.is_enabled)

----------------------------------------------------------------------------
(* orchestrator.py: the create pass and the expiry pass *)

\* the managed snapshots of (volume, class) that are in the cloud, by creation time
ExistingCreatedAt(S, volume_id, frequency) ==
    {s.created_at : s \in {x \in S : /\ x.volume_id = volume_id
                                     /\ x.tags.managed = "true"
                                     /\ x.tags.frequency_type = frequency}}

\* SnapSentryOrchestrator._create_snapshot_if_due for one (volume, class) at
\* instant t, with the outcome of each cloud call given
create_snapshot_if_due(S, id, volume, frequency, t, listOk, createRes, tagOk, delOk) ==
    LET listed == get_existing_managed_snapshots(S, volume.id, frequency, listOk)
        p      == get_policy(volume, frequency)
        Created(sc, made) ==
            [snapshots |-> made.snapshots, calls |-> made.calls, exc |-> made.exc,
             returned |-> made.exc = "none", why |-> sc.why, schedule |-> sc.schedule]
        Outcome(sc) ==
            IF sc.raised # "none"
            THEN [snapshots |-> S, calls |-> <<>>, exc |-> sc.raised, returned |-> FALSE,
                  why |-> sc.why, schedule |-> sc.schedule]
            ELSE IF ~sc.create
            THEN [snapshots |-> S, calls |-> <<>>, exc |-> "none", returned |-> FALSE,
                  why |-> sc.why, schedule |-> sc.schedule]
            ELSE Created(sc, create_snapshot_with_metadata(S, id, volume.id, frequency,
                                 sc.schedule, p.retention_days, t, createRes, tagOk, delOk))
    IN  Outcome(should_create_snapshot(volume, frequency, listed, t))

\* the counters of process_volume_snapshots after an iteration with this outcome
Count(c, result) ==
    CASE result = "created" -> [c EXCEPT !.created = @ + 1]
      [] result = "skipped" -> [c EXCEPT !.skipped = @ + 1]
      [] result = "errored" -> [c EXCEPT !.errors = @ + 1]
      [] OTHER              -> c

ItemResult_uncaught(r) ==
    CASE r.exc = "none" /\ r.returned     -> "created"
      [] r.exc = "none" /\ ~r.returned    -> "skipped"
      [] OTHER                            -> "raised"

\* the outcome of one iteration of the loop of process_volume_snapshots:
\* only SnapshotCreationError is caught there
ItemResult(r) ==
    CASE r.exc = "none" /\ r.returned     -> "created"
      [] r.exc = "none" /\ ~r.returned    -> "skipped"
      [] r.exc = "SnapshotCreationError"  -> "errored"
      [] OTHER                            -> "raised"

after_volume_abort(result, i, n) ==
    IF result = "raised" THEN "raised" ELSE IF i = n THEN "done" ELSE "create"

\* the loop of run_snapshot_workflow after process_volume_snapshots ended for
\* volume i of n: an exception is logged and the loop goes on
after_volume(result, i, n) == IF i = n THEN "done" ELSE "create"

after_snapshot_abort(exc, i, n) ==
    IF exc # "none" THEN "raised" ELSE IF i = n THEN "done" ELSE "expiry"

\* the loop of run_expiry_workflow after process_snapshot_expiry ended for
\* snapshot i of n: an exception is logged and the loop goes on
after_snapshot(exc, i, n) == IF i = n THEN "done" ELSE "expiry"

\* what a workflow has done when its listing call ended and no item is processed yet
ListingOutcome(listOk) == [kind |-> "none", listed |-> listOk]

after_listing_swallow(listOk, n, loop) == IF ~listOk \/ n = 0 THEN "done" ELSE loop

\* a workflow after its listing call: the exception of a failed listing is logged
\* and raised again; an empty list ends the workflow; otherwise the loop starts
after_listing(listOk, n, loop) ==
    IF ~listOk THEN "raised" ELSE IF n = 0 THEN "done" ELSE loop

\* run_snapshot_workflow up to the loop: list the subscribed volumes
StartSnapshotWorkflow ==
    /\ pc = "idle"
    /\ \E listOk \in BOOLEAN :
          LET vols == get_volumes_with_snapshot_subscription(volumes)
          IN  /\ pc' = after_listing(listOk, Len(vols), "create")
              /\ work' = IF listOk THEN vols ELSE <<>>
              /\ last' = ListingOutcome(listOk)
    /\ workflow' = "snapshot"
    /\ idx' = 1
    /\ fi' = 1
    /\ counts' = ZeroCounts
    /\ processed' = <<>>
    /\ ncalls' = 0
    /\ UNCHANGED <<stampVars, modVars, connVars, now, codecVars, raceVars, dueVars, winVars, cloudVars>>

\* one iteration of the loop over SnapshotFrequency.all() in process_volume_snapshots,
\* for the current volume of the loop of run_snapshot_workflow
CreateSnapshotIfDue ==
    /\ pc = "create"
    /\ \E listOk \in BOOLEAN, createRes \in CreateResults, tagOk \in BOOLEAN, delOk \in BOOLEAN :
          \E volume \in {work[idx]}, frequency \in {Frequencies[fi]} :
          \E r \in {create_snapshot_if_due(snapshots, nextId, volume, frequency, now,
                                           listOk, createRes, tagOk, delOk)} :
          \E result \in {ItemResult(r)} :
          LET ended == result = "raised" \/ fi = Len(Frequencies)
          IN  /\ (r.calls # <<>>) => nextId <= MaxSnapshots
              /\ snapshots' = r.snapshots
              /\ nextId' = IF r.calls # <<>> THEN nextId + 1 ELSE nextId
              /\ ncalls' = ncalls + Len(r.calls)
              /\ last' = [kind |-> "create", volume |-> volume.id, frequency |-> frequency,
                          result |-> result, why |-> r.why, exc |-> r.exc,
                          schedule |-> r.schedule, at |-> now,
                          existing |-> ExistingCreatedAt(snapshots, volume.id, frequency),
                          listing |-> IF r.why \notin {"due", "exists"} THEN "not made"
                                      ELSE IF listOk THEN "ok" ELSE "failed",
                          calls |-> r.calls]
              /\ counts' = IF ended THEN ZeroCounts ELSE Count(counts, result)
              /\ processed' = IF ended
                              THEN Append(processed, [id |-> volume.id, failed |-> result = "raised",
                                                      counts |-> Count(counts, result)])
                              ELSE processed
              /\ fi' = IF ended THEN 1 ELSE fi + 1
              /\ idx' = IF ended /\ idx < Len(work) THEN idx + 1 ELSE idx
              /\ pc' = IF ended THEN after_volume(result, idx, Len(work)) ELSE "create"
    /\ UNCHANGED <<stampVars, modVars, connVars, now, codecVars, raceVars, dueVars, winVars, volumes, work, workflow>>

get_managed_snapshots_daily(S) == ById({s \in S : s.tags.managed = "true" /\ s.tags.frequency_type = "daily"})

\* SnapshotRepository.get_managed_snapshots: the snapshots tagged managed = "true"
get_managed_snapshots(S) == ById({s \in S : s.tags.managed = "true"})

\* run_expiry_workflow up to the loop: list the managed snapshots
StartExpiryWorkflow ==
    /\ pc = "idle"
    /\ \E listOk \in BOOLEAN :
          LET snaps == get_managed_snapshots(snapshots)
          IN  /\ pc' = after_listing(listOk, Len(snaps), "expiry")
              /\ work' = IF listOk THEN snaps ELSE <<>>
              /\ last' = ListingOutcome(listOk)
    /\ workflow' = "expiry"
    /\ idx' = 1
    /\ fi' = 1
    /\ counts' = ZeroCounts
    /\ processed' = <<>>
    /\ ncalls' = 0
    /\ UNCHANGED <<stampVars, modVars, connVars, now, codecVars, raceVars, dueVars, winVars, cloudVars>>

process_snapshot_expiry_lenient(S, snapshot, t, delOk) ==
    IF ~SnapshotMetadataDecodes(snapshot.tags) \/ is_expired(snapshot.tags, t) # "active"
    THEN [snapshots |-> clean_up_snapshot(S, snapshot.id, delOk),
          calls |-> <<Call("delete", snapshot.id, snapshot.volume_id, delOk)>>,
          exc |-> "none", result |-> "expired"]
    ELSE [snapshots |-> S, calls |-> <<>>, exc |-> "none", result |-> "active"]

\* SnapSentryOrchestrator.process_snapshot_expiry for one listed snapshot at
\* instant t; a failed delete is logged inside _clean_up_snapshot and not raised
process_snapshot_expiry(S, snapshot, t, delOk) ==
    IF ~SnapshotMetadataDecodes(snapshot.tags)
    THEN [snapshots |-> S, calls |-> <<>>, exc |-> "ValidationError", result |-> "error"]
    ELSE CASE is_expired(snapshot.tags, t) = "raise" ->
                [snapshots |-> S, calls |-> <<>>, exc |-> "ValueError", result |-> "error"]
           [] is_expired(snapshot.tags, t) = "active" ->
                [snapshots |-> S, calls |-> <<>>, exc |-> "none", result |-> "active"]
           [] OTHER ->
                [snapshots |-> clean_up_snapshot(S, snapshot.id, delOk),
                 calls |-> <<Call("delete", snapshot.id, snapshot.volume_id, delOk)>>,
                 exc |-> "none", result |-> "expired"]

\* one iteration of the loop of run_expiry_workflow: every exception is caught and logged
ProcessSnapshotExpiry ==
    /\ pc = "expiry"
    /\ \E delOk \in BOOLEAN :
          \E snapshot \in {work[idx]} :
          \E r \in {process_snapshot_expiry(snapshots, snapshot, now, delOk)} :
              /\ snapshots' = r.snapshots
              /\ ncalls' = ncalls + Len(r.calls)
              /\ last' = [kind |-> "expiry", snapshot |-> snapshot.id, result |-> r.result,
                          exc |-> r.exc, tags |-> snapshot.tags, at |-> now, calls |-> r.calls]
              /\ processed' = Append(processed, [id |-> snapshot.id, failed |-> r.exc # "none",
                                                 counts |-> ZeroCounts, at |-> now,
                                                 calls |-> r.calls])
              /\ pc' = after_snapshot(r.exc, idx, Len(work))
    /\ idx' = IF idx < Len(work) THEN idx + 1 ELSE idx
    /\ UNCHANGED <<stampVars, modVars, connVars, now, codecVars, raceVars, dueVars, winVars, volumes, nextId, work, workflow, fi, counts>>

\* the workflow returned or raised: the invocation is over
Return ==
    /\ pc \in {"done", "raised"}
    /\ pc' = "idle"
    /\ workflow' = "none"
    /\ work' = <<>>
    /\ idx' = 1
    /\ fi' = 1
    /\ counts' = ZeroCounts
    /\ last' = NoOutcome
    /\ processed' = <<>>
    /\ ncalls' = 0
    /\ UNCHANGED <<stampVars, modVars, connVars, now, codecVars, raceVars, dueVars, winVars, cloudVars>>

----------------------------------------------------------------------------
(* The cloud and the clock the passes run against *)

\* the hours of a day at which an invocation can be started
RunHours == {8, 9, 20}

RunInstants == {d * 24 + h : d \in ClockDays, h \in RunHours}

\* time passes between two invocations
Tick ==
    /\ pc = "idle"
    /\ \E t \in RunInstants :
          /\ t > now
          /\ \A u \in RunInstants : u > now => t <= u
          /\ now' = t
    /\ UNCHANGED <<stampVars, modVars, connVars, codecVars, raceVars, dueVars, winVars, cloudVars, runVars>>

Policy(class, start_time, tz, retention_days, start_day, start_date) ==
    [class |-> class, is_enabled |-> TRUE, start_time |-> start_time, timezone |-> tz,
     retention_days |-> retention_days, start_day |-> start_day, start_date |-> start_date]

\* the decoded tags of the volumes of the model
MultiPolicyTags ==
    [decodes |-> TRUE, is_enabled |-> TRUE,
     snapshot_policy_daily |-> Policy("daily", 9, "Pacific/Kiritimati", 1, "sunday", 1),
     snapshot_policy_weekly |-> Policy("weekly", 9, "UTC", 30, "wednesday", 1),
     snapshot_policy_monthly |-> Policy("monthly", 9, "UTC", 90, "sunday", 31)]

DailyOnlyTags ==
    [decodes |-> TRUE, is_enabled |-> TRUE,
     snapshot_policy_daily |-> Policy("daily", 9, "UTC", 1, "sunday", 1),
     snapshot_policy_weekly |-> NoPolicy,
     snapshot_policy_monthly |-> NoPolicy]

UnsubscribedTags ==
    [decodes |-> TRUE, is_enabled |-> FALSE,
     snapshot_policy_daily |-> Policy("daily", 9, "UTC", 1, "sunday", 1),
     snapshot_policy_weekly |-> NoPolicy,
     snapshot_policy_monthly |-> NoPolicy]

UndecodableTags ==
    [decodes |-> FALSE, is_enabled |-> TRUE,
     snapshot_policy_daily |-> NoPolicy,
     snapshot_policy_weekly |-> NoPolicy,
     snapshot_policy_monthly |-> NoPolicy]

Volume(id, tags) ==
    [id |-> id, decodes |-> tags.decodes, is_enabled |-> tags.is_enabled,
     snapshot_policy_daily |-> tags.snapshot_policy_daily,
     snapshot_policy_weekly |-> tags.snapshot_policy_weekly,
     snapshot_policy_monthly |-> tags.snapshot_policy_monthly]

\* the volumes of the project in listing order: two subscribed volumes, one
\* whose tags do not decode, one that is not subscribed, and so on in rounds
VolumeList ==
    [i \in 1..NumVolumes |->
        Volume(i, CASE i % 4 = 1 -> MultiPolicyTags
                    [] i % 4 = 2 -> UndecodableTags
                    [] i % 4 = 3 -> DailyOnlyTags
                    [] OTHER     -> UnsubscribedTags)]

\* tags of a snapshot of class daily that expires at instant t
GoodTags(t) ==
    [managed |-> "true", frequency_type |-> "daily", retention_days |-> FormatInt(1),
     retention_type |-> "time", expiry |-> FormatIso(t), expiry_zoned |-> FormatIso(t)]

\* the managed snapshot that is in the cloud before the first invocation, if any:
\* taken the day before FirstDay at 09:00, due to expire on FirstDay at 09:00
OldSnapshot(tags) ==
    [id |-> 1, volume_id |-> 3, created_at |-> (FirstDay - 1) * 24 + 9,
     name |-> generate_snapshot_name(3, "daily",
                 timeframe_validation(Policy("daily", 9, "UTC", 1, "sunday", 1),
                                      (FirstDay - 1) * 24 + 9)),
     tags |-> tags]

InitialSnapshots ==
    { {},
      {OldSnapshot(GoodTags(FirstDay * 24 + 9))},
      {OldSnapshot([GoodTags(0) EXCEPT !.expiry = AbsentTag])},
      {OldSnapshot([GoodTags(0) EXCEPT !.expiry = MalformedTag])},
      {OldSnapshot([GoodTags(0) EXCEPT !.frequency_type = "hourly"])} }

Init ==
    /\ now = FirstDay * 24 + 8
    /\ volumes = VolumeList
    /\ snapshots \in InitialSnapshots
    /\ nextId = 2
    /\ RunIdle
    /\ DueIdle
    /\ WinIdle
    /\ CodecIdle
    /\ RaceIdle
    /\ StampIdle
    /\ ModIdle
    /\ ConnIdle

Next ==
    \/ StartSnapshotWorkflow
    \/ CreateSnapshotIfDue
    \/ StartExpiryWorkflow
    \/ ProcessSnapshotExpiry
    \/ Return
    \/ Tick

Spec == Init /\ [][Next]_vars

----------------------------------------------------------------------------
(* The window check applied to bounded inputs *)

\* the scheduled_time_utc values the window check is tried on (2024)
WindowStarts ==
    {assume_tz(DateToDay(2024, 1, d) * 24 + 9, "UTC") : d \in {15, 30, 31}}

\* creation times around both ends of the daily, weekly and monthly window
CreatedAts ==
    UNION {{ws.plain + k + e : k \in {0, 24, 7 * 24}, e \in {0 - 1, 0, 1}}
             \cup {add_months(ws, 1).plain + e : e \in {0 - 1, 0, 1}} : ws \in WindowStarts}

ListedSnapshots ==
    UNION {[1..n -> {[id |-> 0, created_at |-> c] : c \in CreatedAts}] : n \in 0..MaxListed}

WinInit ==
    /\ winArgs \in {[listed |-> l, frequency |-> f,
                      schedule |-> SnapshotSchedule(TRUE, ws, ws, "window matched")]
                        : l \in ListedSnapshots, f \in FrequencySet, ws \in WindowStarts}
    /\ winResult = FALSE
    /\ winPc = "input"
    /\ now = FirstDay * 24
    /\ DueIdle
    /\ CloudIdle
    /\ RunIdle
    /\ CodecIdle
    /\ RaceIdle
    /\ StampIdle
    /\ ModIdle
    /\ ConnIdle

\* one call of _snapshot_exists_in_window on the fetched list
EvaluateWindow ==
    /\ winPc = "input"
    /\ winResult' = snapshot_exists_in_window(winArgs.listed, winArgs.frequency, winArgs.schedule)
    /\ winPc' = "done"
    /\ UNCHANGED <<stampVars, modVars, connVars, now, codecVars, raceVars, winArgs, dueVars, cloudVars, runVars>>

WinNext == EvaluateWindow

SpecWindow == WinInit /\ [][WinNext]_vars

----------------------------------------------------------------------------
(* models/metadata.py, volume.py: the tag codec of a volume's subscription *)

\* A tag value is a text, modelled by what it spells: a word, the decimal text
\* of an integer or the text of a time of day; Absent stands for a missing key.
Absent == [kind |-> "absent"]

Word(s) == [kind |-> "word", s |-> s]

Decimal(n) == [kind |-> "decimal", n |-> n]

TimeText(fmt, h, m) == [kind |-> "time", fmt |-> fmt, h |-> h, m |-> m]

\* a datetime.time
Time(h, m) == [h |-> h, m |-> m]

\* the outcome of validating one field: its value, or a validation error
Valid(v) == [ok |-> TRUE, v |-> v]

Invalid(v) == [ok |-> FALSE, v |-> v]

\* the texts pydantic reads as a bool
TrueWords == {"true", "t", "yes", "y", "on"}

FalseWords == {"false", "f", "no", "n", "off"}

\* a bool field: the default when the key is missing, an error for any other text
parse_bool(tag, default) ==
    CASE tag.kind = "absent"                         -> Valid(default)
      [] tag.kind = "word" /\ tag.s \in TrueWords    -> Valid(TRUE)
      [] tag.kind = "word" /\ tag.s \in FalseWords   -> Valid(FALSE)
      [] tag.kind = "decimal" /\ tag.n \in {0, 1}    -> Valid(tag.n = 1)
      [] OTHER                                       -> Invalid(FALSE)

parse_int_required(tag, default) ==
    IF tag.kind = "decimal" THEN Valid(tag.n) ELSE Invalid(default)

\* an int field without constraints
parse_int(tag, default) ==
    CASE tag.kind = "absent"  -> Valid(default)
      [] tag.kind = "decimal" -> Valid(tag.n)
      [] OTHER                -> Invalid(default)

\* the ge= / le= constraints of a Field
in_range(r, lo, hi) == IF r.ok /\ (r.v < lo \/ r.v > hi) THEN Invalid(r.v) ELSE r

\* a datetime.time field
parse_time(tag, default) ==
    CASE tag.kind = "absent" -> Valid(default)
      [] /\ tag.kind = "time"
         /\ tag.fmt \in {"HH:MM", "HH:MM:SS"}
         /\ tag.h \in 0..23
         /\ tag.m \in 0..59  -> Valid(Time(tag.h, tag.m))
      [] OTHER               -> Invalid(default)

\* a Literal[...] field
parse_literal(tag, allowed, default) ==
    CASE tag.kind = "absent"                     -> Valid(default)
      [] tag.kind = "word" /\ tag.s \in allowed  -> Valid(tag.s)
      [] OTHER                                   -> Invalid(default)

\* BaseSnapshotPolicy.validate_timezone, after the str field was read
validate_timezone(tag) ==
    CASE tag.kind = "absent"                       -> Valid("UTC")
      [] tag.kind = "word" /\ tag.s \in Timezones  -> Valid(tag.s)
      [] OTHER                                     -> Invalid("UTC")

\* the default of start_time in every class
DefaultStartTime == Time(23, 29)

\* the default of retention_days in each class
DefaultRetentionDays(class) ==
    CASE class = "daily"  -> 7
      [] class = "weekly" -> 30
      [] OTHER            -> 90

\* the tags of one class when none of its keys is set
AbsentClassTags ==
    [enabled |-> Absent, start_time |-> Absent, timezone |-> Absent,
     retention_type |-> Absent, retention_days |-> Absent,
     start_day |-> Absent, start_date |-> Absent]

\* a volume without tags; extra holds the tags of the volume whose key is not one
\* of the aliases x-<organization>-..., as a set of [key, tag] with distinct keys
EmptyMetadata ==
    [managed |-> Absent, daily |-> AbsentClassTags, weekly |-> AbsentClassTags,
     monthly |-> AbsentClassTags, extra |-> {}]

\* populate_by_name: a field is read from the key of its alias and, when that key
\* is missing, from the key that is the name of the field
by_alias_or_name(data, aliased, name) ==
    IF aliased # Absent THEN aliased
    ELSE IF \E e \in data.extra : e.key = name
    THEN (CHOOSE e \in data.extra : e.key = name).tag
    ELSE Absent

\* the keyword arguments load_fields_from_dict passes next to **data
PolicyKeywords == {"snapshot_policy_daily", "snapshot_policy_weekly", "snapshot_policy_monthly"}

\* an exception leaving the codec
RaisedDecode(exc) == [raised |-> exc, value |-> None]

\* DailySnapshotSchedule(**data), WeeklySnapshotSchedule(**data) and
\* MonthlySnapshotSchedule(**data): every field is read from the key of its alias,
\* x-<organization>-<class>-<field>; keys of other classes are ignored.  The
\* subclasses declare retention_days anew, without the ge=1, le=3650 of the base.
SnapshotPolicyFromTags(class, data) ==
    LET t              == data[class]
        is_enabled     == parse_bool(by_alias_or_name(data, t.enabled, "is_enabled"), FALSE)
        start_time     == parse_time(by_alias_or_name(data, t.start_time, "start_time"),
                                     DefaultStartTime)
        timezone       == validate_timezone(by_alias_or_name(data, t.timezone, "timezone"))
        retention_type == parse_literal(by_alias_or_name(data, t.retention_type, "retention_type"),
                                        {"time"}, "time")
        retention_days == parse_int(by_alias_or_name(data, t.retention_days, "retention_days"),
                                    DefaultRetentionDays(class))
        start_day      == IF class = "weekly"
                          THEN parse_literal(by_alias_or_name(data, t.start_day, "start_day"),
                                             DayNames, "sunday")
                          ELSE Valid("sunday")
        start_date     == IF class = "monthly"
                          THEN in_range(parse_int(by_alias_or_name(data, t.start_date, "start_date"),
                                                  1), 1, 31)
                          ELSE Valid(1)
    IN  IF /\ is_enabled.ok /\ start_time.ok /\ timezone.ok /\ retention_type.ok
           /\ retention_days.ok /\ start_day.ok /\ start_date.ok
        THEN [raised |-> "none",
              value |-> [class |-> class, is_enabled |-> is_enabled.v,
                         start_time |-> start_time.v, timezone |-> timezone.v,
                         retention_days |-> retention_days.v,
                         start_day |-> start_day.v, start_date |-> start_date.v]]
        ELSE RaisedDecode("ValidationError")

\* a policy is kept only when its is_enabled is true
EnabledOrNone(p) == IF p.is_enabled THEN p ELSE None

\* VolumeSubscriptionInfo.load_fields_from_dict: the three schedules are built
\* first; cls(**data, snapshot_policy_daily=..., ...) is a TypeError when data
\* holds one of these keywords itself
load_fields_from_dict(data) ==
    LET Build(flag, daily, weekly, monthly) ==
            IF daily.raised # "none" \/ weekly.raised # "none" \/ monthly.raised # "none"
            THEN RaisedDecode("ValidationError")
            ELSE IF \E e \in data.extra : e.key \in PolicyKeywords
            THEN RaisedDecode("TypeError")
            ELSE IF ~flag.ok
            THEN RaisedDecode("ValidationError")
            ELSE [raised |-> "none",
                  value |-> [is_enabled |-> flag.v,
                             snapshot_policy_daily |-> EnabledOrNone(daily.value),
                             snapshot_policy_weekly |-> EnabledOrNone(weekly.value),
                             snapshot_policy_monthly |-> EnabledOrNone(monthly.value)]]
    IN  Build(parse_bool(by_alias_or_name(data, data.managed, "is_enabled"), FALSE),
              SnapshotPolicyFromTags("daily", data),
              SnapshotPolicyFromTags("weekly", data),
              SnapshotPolicyFromTags("monthly", data))

\* VolumeRepository._parse_subscription
parse_subscription(data) ==
    IF data = EmptyMetadata
    THEN [raised |-> "none",
          value |-> [is_enabled |-> FALSE, snapshot_policy_daily |-> None,
                     snapshot_policy_weekly |-> None, snapshot_policy_monthly |-> None]]
    ELSE load_fields_from_dict(data)

dump_policy_no_timezone(class, p) ==
    IF p.class = "None" THEN AbsentClassTags
    ELSE [enabled |-> Word(IF p.is_enabled THEN "true" ELSE "false"),
          start_time |-> TimeText("HH:MM:SS", p.start_time.h, p.start_time.m),
          timezone |-> Absent,
          retention_type |-> Word("time"),
          retention_days |-> Decimal(p.retention_days),
          start_day |-> IF class = "weekly" THEN Word(p.start_day) ELSE Absent,
          start_date |-> IF class = "monthly" THEN Decimal(p.start_date) ELSE Absent]

\* to_str of dump_flat_str_dict for the leaves of one policy; a None is skipped
dump_policy(class, p) ==
    IF p.class = "None" THEN AbsentClassTags
    ELSE [enabled |-> Word(IF p.is_enabled THEN "true" ELSE "false"),
          start_time |-> TimeText("HH:MM:SS", p.start_time.h, p.start_time.m),
          timezone |-> Word(p.timezone),
          retention_type |-> Word("time"),
          retention_days |-> Decimal(p.retention_days),
          start_day |-> IF class = "weekly" THEN Word(p.start_day) ELSE Absent,
          start_date |-> IF class = "monthly" THEN Decimal(p.start_date) ELSE Absent]

\* VolumeSubscriptionInfo.to_openstack_metadata (dump_flat_str_dict)
to_openstack_metadata(sub) ==
    [managed |-> Word(IF sub.is_enabled THEN "true" ELSE "false"),
     daily |-> dump_policy("daily", sub.snapshot_policy_daily),
     weekly |-> dump_policy("weekly", sub.snapshot_policy_weekly),
     monthly |-> dump_policy("monthly", sub.snapshot_policy_monthly),
     extra |-> {}]

\* a listed volume as the loop of get_volumes_with_snapshot_subscription sees it
\* once _parse_subscription returned or raised
ParsedVolume(v) ==
    LET Parsed(r) ==
            [id |-> v.id, decodes |-> r.raised = "none",
             is_enabled |-> r.raised = "none" /\ r.value.is_enabled]
    IN  Parsed(parse_subscription(v.metadata))

----------------------------------------------------------------------------
(* The tag codec and the volume scan applied to bounded inputs *)

\* number of volumes in a scanned project
NumScanned == 2

\* a policy object of a class
PolicyObject(class, is_enabled, start_time, tz, retention_days, start_day, start_date) ==
    [class |-> class, is_enabled |-> is_enabled, start_time |-> start_time, timezone |-> tz,
     retention_days |-> retention_days, start_day |-> start_day, start_date |-> start_date]

DailyObjects ==
    {PolicyObject("daily", e, st, tz, r, "sunday", 1) :
        e \in BOOLEAN, st \in {Time(9, 0), DefaultStartTime},
        tz \in {"UTC", "Asia/Tokyo"}, r \in {1, 14}}

WeeklyObjects ==
    {PolicyObject("weekly", e, Time(9, 0), "UTC", 30, d, 1) :
        e \in BOOLEAN, d \in {"sunday", "wednesday"}}

MonthlyObjects ==
    {PolicyObject("monthly", e, Time(9, 0), "UTC", 90, "sunday", d) :
        e \in BOOLEAN, d \in {1, 31}}

\* the subscriptions the round trip is tried on
Subscriptions ==
    [is_enabled : BOOLEAN,
     snapshot_policy_daily : DailyObjects \cup {None},
     snapshot_policy_weekly : WeeklyObjects \cup {None},
     snapshot_policy_monthly : MonthlyObjects \cup {None}]

\* the tags of the daily class decoding is tried on: every combination of a
\* missing, a well-formed and an ill-formed value of each key
DailyTagSets ==
    [enabled : {Absent, Word("true"), Word("false"), Word("yes"), Word("maybe")},
     start_time : {Absent, TimeText("HH:MM", 9, 0), TimeText("HH:MM", 25, 0)},
     timezone : {Absent, Word("Asia/Tokyo"), Word("Mars/Olympus")},
     retention_type : {Absent},
     retention_days : {Absent, Decimal(14), Decimal(0), Decimal(4000), Word("abc")},
     start_day : {Absent},
     start_date : {Absent}]

WeeklyTagSets ==
    {AbsentClassTags,
     [AbsentClassTags EXCEPT !.enabled = Word("true")],
     [AbsentClassTags EXCEPT !.enabled = Word("true"), !.start_day = Word("wednesday")],
     [AbsentClassTags EXCEPT !.start_day = Word("someday")]}

MonthlyTagSets ==
    {AbsentClassTags,
     [AbsentClassTags EXCEPT !.enabled = Word("true")],
     [AbsentClassTags EXCEPT !.enabled = Word("true"), !.start_date = Decimal(31)],
     [AbsentClassTags EXCEPT !.enabled = Word("true"), !.start_date = Decimal(32)]}

\* the tags of a volume decoding is tried on
RawMetadata ==
    [managed : {Absent, Word("true"), Word("false"), Word("maybe")},
     daily : DailyTagSets, weekly : WeeklyTagSets, monthly : MonthlyTagSets, extra : {{}}]

\* a tag of the volume that is not a snapsentry tag
Foreign(key, tag) == [key |-> key, tag |-> tag]

\* the tags beside the snapsentry tags that decoding is tried on
ForeignTagSets ==
    {{},
     {Foreign("owner", Word("alice"))},
     {Foreign("owner", Word("alice")), Foreign("retention_days", Decimal(3))},
     {Foreign("is_enabled", Word("true"))},
     {Foreign("timezone", Word("Asia/Tokyo"))},
     {Foreign("timezone", Word("Mars/Olympus"))},
     {Foreign("snapshot_policy_daily", Word("nightly"))}}

\* tags of a volume that carries other tags too: no snapsentry tag, an enabled
\* Daily policy, an enabled Weekly policy with its own timezone tag
ForeignMetadata ==
    {[base EXCEPT !.extra = x] :
        base \in {EmptyMetadata,
                  [EmptyMetadata EXCEPT !.managed = Word("true"),
                                        !.daily = [AbsentClassTags EXCEPT !.enabled = Word("true")]],
                  [EmptyMetadata EXCEPT !.managed = Word("true"),
                                        !.weekly = [AbsentClassTags EXCEPT
                                                       !.enabled = Word("true"),
                                                       !.timezone = Word("Pacific/Honolulu")]]},
        x \in ForeignTagSets}

\* tags of a subscribed volume with an enabled Daily policy
SubscribedTags(daily) ==
    [EmptyMetadata EXCEPT !.managed = Word("true"),
                          !.daily = [daily EXCEPT !.enabled = Word("true")]]

\* the tags of the volumes of a scanned project
ScannedMetadata ==
    {EmptyMetadata,
     SubscribedTags(AbsentClassTags),
     [SubscribedTags(AbsentClassTags) EXCEPT !.managed = Word("false")],
     SubscribedTags([AbsentClassTags EXCEPT !.timezone = Word("Mars/Olympus")]),
     SubscribedTags([AbsentClassTags EXCEPT !.retention_days = Decimal(0)]),
     SubscribedTags([AbsentClassTags EXCEPT !.retention_days = Decimal(4000)]),
     [SubscribedTags(AbsentClassTags) EXCEPT
         !.monthly = [AbsentClassTags EXCEPT !.enabled = Word("true"),
                                             !.start_date = Decimal(32)]],
     [EmptyMetadata EXCEPT !.extra = {Foreign("is_enabled", Word("true"))}]}

\* the projects the scan is tried on: NumScanned volumes in listing order
ProjectVolumeLists ==
    {[i \in 1..NumScanned |-> [id |-> i, metadata |-> f[i]]] :
        f \in [1..NumScanned -> ScannedMetadata]}

CodecInit ==
    /\ now = 0
    /\ \/ /\ codecPc = "encode"
          /\ subscription \in Subscriptions
          /\ volumeMetadata = None
          /\ projectVolumes = <<>>
       \/ /\ codecPc = "decode"
          /\ subscription = None
          /\ volumeMetadata \in RawMetadata \cup ForeignMetadata
          /\ projectVolumes = <<>>
       \/ /\ codecPc = "scan"
          /\ subscription = None
          /\ volumeMetadata = None
          /\ projectVolumes \in ProjectVolumeLists
    /\ decoded = NoDecoded
    /\ subscribed = <<>>
    /\ DueIdle
    /\ WinIdle
    /\ CloudIdle
    /\ RunIdle
    /\ RaceIdle
    /\ StampIdle
    /\ ModIdle
    /\ ConnIdle

\* subscription.to_openstack_metadata(), the tags a volume is given
Encode ==
    /\ codecPc = "encode"
    /\ volumeMetadata' = to_openstack_metadata(subscription)
    /\ codecPc' = "decode"
    /\ UNCHANGED <<stampVars, modVars, connVars, now, subscription, decoded, projectVolumes, subscribed,
                   dueVars, winVars, cloudVars, runVars, raceVars>>

\* _parse_subscription(volume) on the tags of a volume
Decode ==
    /\ codecPc = "decode"
    /\ decoded' = parse_subscription(volumeMetadata)
    /\ codecPc' = "done"
    /\ UNCHANGED <<stampVars, modVars, connVars, now, subscription, volumeMetadata, projectVolumes, subscribed,
                   dueVars, winVars, cloudVars, runVars, raceVars>>

\* get_volumes_with_snapshot_subscription() on the listed volumes of a project
Scan ==
    /\ codecPc = "scan"
    /\ subscribed' = get_volumes_with_snapshot_subscription(
                        [i \in 1..Len(projectVolumes) |-> ParsedVolume(projectVolumes[i])])
    /\ codecPc' = "done"
    /\ UNCHANGED <<stampVars, modVars, connVars, now, subscription, volumeMetadata, decoded, projectVolumes,
                   dueVars, winVars, cloudVars, runVars, raceVars>>

CodecNext == Encode \/ Decode \/ Scan

SpecCodec == CodecInit /\ [][CodecNext]_vars

----------------------------------------------------------------------------
(* orchestrator.py, snapshot.py: invocations of the create pass that run   *)
(* against the same cloud, followed on one (volume, class) item            *)

\* number of invocations of the create pass that are started
NumRacers == 2

\* the instants of Wednesday 2024-01-31 at which a cloud call can be answered
RaceInstants == {(FirstDay + 1) * 24 + h : h \in {8, 9, 10}}

\* an invocation that was not started yet
IdleRacer == [pc |-> "idle", observed |-> "nothing", schedule |-> NoSchedule, made |-> 0]

RaceInit ==
    /\ now = (FirstDay + 1) * 24 + 8
    /\ volumes \in {<<Volume(1, MultiPolicyTags)>>, <<Volume(1, DailyOnlyTags)>>}
    /\ snapshots = {}
    /\ nextId = 1
    /\ raced \in [volume : {1}, frequency : FrequencySet]
    /\ racers = [i \in 1..NumRacers |-> IdleRacer]
    /\ overlaps = {}
    /\ DueIdle
    /\ WinIdle
    /\ RunIdle
    /\ CodecIdle
    /\ StampIdle
    /\ ModIdle
    /\ ConnIdle

\* an invocation is between the start of _create_snapshot_if_due and its end
InFlight(i) == racers[i].pc \in {"check", "create"}

\* an invocation reaches _create_snapshot_if_due for the item
RacerBegin(i) ==
    /\ racers[i].pc = "idle"
    /\ racers' = [racers EXCEPT ![i].pc = "check"]
    /\ overlaps' = overlaps \cup {{i, j} : j \in {k \in 1..NumRacers : k # i /\ InFlight(k)}}
    /\ UNCHANGED <<stampVars, modVars, connVars, now, raced, codecVars, dueVars, winVars, cloudVars, runVars>>

\* SnapshotScheduler.should_create_snapshot of the invocation: the dedup listing
\* shows the snapshots that are in the cloud at this moment
RacerShouldCreate(i) ==
    /\ racers[i].pc = "check"
    /\ \E listOk \in BOOLEAN :
          \E sc \in {should_create_snapshot(volumes[raced.volume], raced.frequency,
                          get_existing_managed_snapshots(snapshots, volumes[raced.volume].id,
                                                         raced.frequency, listOk),
                          now)} :
             racers' = [racers EXCEPT ![i] =
                          [pc |-> IF sc.create THEN "create" ELSE "done",
                           observed |-> IF ~sc.create THEN sc.why
                                        ELSE IF listOk THEN "none in window"
                                        ELSE "listing failed",
                           schedule |-> sc.schedule,
                           made |-> 0]]
    /\ UNCHANGED <<stampVars, modVars, connVars, now, raced, overlaps, codecVars, dueVars, winVars, cloudVars, runVars>>

\* SnapshotManager.create_snapshot_with_metadata of the invocation
RacerCreate(i) ==
    /\ racers[i].pc = "create"
    /\ nextId <= MaxSnapshots
    /\ \E createRes \in CreateResults, tagOk \in BOOLEAN, delOk \in BOOLEAN :
          \E r \in {create_snapshot_with_metadata(snapshots, nextId, volumes[raced.volume].id,
                         raced.frequency, racers[i].schedule,
                         get_policy(volumes[raced.volume], raced.frequency).retention_days,
                         now, createRes, tagOk, delOk)} :
             /\ snapshots' = r.snapshots
             /\ racers' = [racers EXCEPT ![i].pc = "done",
                                         ![i].made = IF r.exc = "none" THEN nextId ELSE 0]
    /\ nextId' = nextId + 1
    /\ UNCHANGED <<stampVars, modVars, connVars, now, raced, overlaps, volumes, codecVars, dueVars, winVars, runVars>>

\* time passes while the invocations run
RaceTick ==
    /\ \E t \in RaceInstants :
          /\ t > now
          /\ \A u \in RaceInstants : u > now => t <= u
          /\ now' = t
    /\ UNCHANGED <<stampVars, modVars, connVars, raceVars, codecVars, dueVars, winVars, cloudVars, runVars>>

RaceNext ==
    \/ \E i \in 1..NumRacers : RacerBegin(i)
    \/ \E i \in 1..NumRacers : RacerShouldCreate(i)
    \/ \E i \in 1..NumRacers : RacerCreate(i)
    \/ RaceTick

SpecRace == RaceInit /\ [][RaceNext]_vars

----------------------------------------------------------------------------
(* _generate_metadata applied to the schedules of bounded policies *)

\* days around the two clock changes of 2024 in DstZones, and a winter day
StampDays ==
    {DateToDay(2024, 1, 31), DateToDay(2024, 3, 30), DateToDay(2024, 3, 31),
     DateToDay(2024, 10, 26), DateToDay(2024, 10, 27)}

StampInstants == {d * 24 + h : d \in StampDays, h \in RunHours}

StampRetentions == {1, 7}

StampPolicies ==
    {[class |-> "daily", is_enabled |-> TRUE, start_time |-> s, timezone |-> z,
      retention_days |-> r, start_day |-> "sunday", start_date |-> 1]
        : s \in {9, 19}, z \in Timezones \cup DstZones, r \in StampRetentions}

StampInit ==
    /\ now \in StampInstants
    /\ policy \in StampPolicies
    /\ decision = NoDecision
    /\ duePc = "off"
    /\ stampPc = "input"
    /\ stamped = NoTags
    /\ WinIdle
    /\ CloudIdle
    /\ RunIdle
    /\ CodecIdle
    /\ RaceIdle
    /\ ModIdle
    /\ ConnIdle

\* the schedule of policy.is_snapshot_due() at instant now and, when it is due,
\* the tags _generate_metadata makes of it for the snapshot to create
GenerateMetadata ==
    /\ stampPc = "input"
    /\ \E schedule \in {is_snapshot_due(policy, now)} :
          /\ decision' = schedule
          /\ stamped' = IF schedule.raised = "none" /\ schedule.is_due
                        THEN generate_metadata(policy.class, schedule, policy.retention_days)
                        ELSE NoTags
    /\ stampPc' = "done"
    /\ UNCHANGED <<now, policy, duePc, winVars, cloudVars, runVars, codecVars, raceVars,
                   modVars, connVars>>

StampNext == GenerateMetadata

SpecStamp == StampInit /\ [][StampNext]_vars

----------------------------------------------------------------------------
(* volume.py, orchestrator.py: subscribing a volume *)

\* set_volume_metadata(volume, **metadata): the given keys are set on the volume,
\* its other keys are kept
MergeClassTags(old, new) ==
    [k \in DOMAIN old |-> IF new[k] # Absent THEN new[k] ELSE old[k]]

set_volume_metadata(tags, metadata) ==
    [managed |-> IF metadata.managed # Absent THEN metadata.managed ELSE tags.managed,
     daily |-> MergeClassTags(tags.daily, metadata.daily),
     weekly |-> MergeClassTags(tags.weekly, metadata.weekly),
     monthly |-> MergeClassTags(tags.monthly, metadata.monthly),
     extra |-> tags.extra]

\* VolumeRepository.update_subscription_info: a failure of the cloud call is
\* logged in the except branch, which does not raise again
update_subscription_info(tags, metadata, updOk) ==
    [tags |-> IF updOk THEN set_volume_metadata(tags, metadata) ELSE tags,
     exc |-> "none",
     call |-> IF updOk THEN "ok" ELSE "failed"]

\* SnapSentryOrchestrator.modify_snapsentry_subscription
modify_snapsentry_subscription(tags, sub, updOk) ==
    IF ~sub.is_enabled
    THEN [tags |-> tags, status |-> "skipped", call |-> "none"]
    ELSE LET Body(r) ==
                 [tags |-> r.tags,
                  status |-> IF r.exc = "none" THEN "success" ELSE "raised",
                  call |-> r.call]
         IN  Body(update_subscription_info(tags, to_openstack_metadata(sub), updOk))

\* the subscriptions a volume is subscribed with
ModSubscriptions ==
    [is_enabled : BOOLEAN,
     snapshot_policy_daily : DailyObjects \cup {None},
     snapshot_policy_weekly : {PolicyObject("weekly", TRUE, Time(9, 0), "UTC", 30, "wednesday", 1), None},
     snapshot_policy_monthly : {None}]

\* the tags of the volume before the call: none, or an earlier subscription
ModVolumeTags ==
    {EmptyMetadata, SubscribedTags([AbsentClassTags EXCEPT !.timezone = Word("Asia/Tokyo")])}

ModInit ==
    /\ now = 0
    /\ codecPc = "off"
    /\ subscription \in ModSubscriptions
    /\ volumeMetadata = None
    /\ decoded = NoDecoded
    /\ projectVolumes = <<>>
    /\ subscribed = <<>>
    /\ modPc = "input"
    /\ modTags \in ModVolumeTags
    /\ modResult = NoModResult
    /\ DueIdle
    /\ WinIdle
    /\ CloudIdle
    /\ RunIdle
    /\ RaceIdle
    /\ StampIdle
    /\ ConnIdle

\* one call of modify_snapsentry_subscription(volume_id, subscription)
ModifySubscription ==
    /\ modPc = "input"
    /\ \E updOk \in BOOLEAN :
          \E r \in {modify_snapsentry_subscription(modTags, subscription, updOk)} :
              /\ modTags' = r.tags
              /\ modResult' = [status |-> r.status, call |-> r.call]
    /\ modPc' = "done"
    /\ UNCHANGED <<now, codecVars, dueVars, winVars, cloudVars, runVars, raceVars,
                   stampVars, connVars>>

ModNext == ModifySubscription

SpecModify == ModInit /\ [][ModNext]_vars

----------------------------------------------------------------------------
(* connection.py: OpenstackConnectionManager.connect *)

\* the largest max_retries a manager is constructed with
MaxRetries == 4

\* how one attempt (Connection(...) and authorize()) can end: with a connection,
\* with one of the exceptions the loop catches, or with any other exception
AttemptOutcomes == {"ok", "ConnectTimeout", "SDKException", "other"}

\* the exceptions of the except clause of the loop
Caught == {"ConnectTimeout", "SDKException"}

RECURSIVE Pow2(_)
Pow2(n) == IF n = 0 THEN 1 ELSE 2 * Pow2(n - 1)

after_attempt_late(i, n) == IF i < n THEN "sleep" ELSE "raised"

\* after a caught failure of attempt i of n: the backoff sleep, or, after the
\* last attempt, the end of the loop and the RuntimeError
after_attempt(i, n) == IF i + 1 < n THEN "sleep" ELSE "raised"

\* OpenstackConnectionManager(cloud_name, timeout, max_retries) and the call of
\* connect(): with max_retries = 0 the loop body never runs
ConnInit ==
    /\ now = 0
    /\ max_retries \in 0..MaxRetries
    /\ connPc = IF max_retries > 0 THEN "attempt" ELSE "raised"
    /\ attempt = 0
    /\ waits = <<>>
    /\ outcomes = <<>>
    /\ DueIdle
    /\ WinIdle
    /\ CloudIdle
    /\ RunIdle
    /\ CodecIdle
    /\ RaceIdle
    /\ StampIdle
    /\ ModIdle

\* one iteration of the loop up to the return or the except clause
Attempt ==
    /\ connPc = "attempt"
    /\ \E outcome \in AttemptOutcomes :
          /\ outcomes' = Append(outcomes, outcome)
          /\ connPc' = CASE outcome = "ok"       -> "returned"
                         [] outcome \in Caught   -> after_attempt(attempt, max_retries)
                         [] OTHER                -> "propagated"
    /\ UNCHANGED <<now, max_retries, attempt, waits, dueVars, winVars, cloudVars, runVars,
                   codecVars, raceVars, stampVars, modVars>>

\* time.sleep(2 ** attempt) and the next value of the loop variable
Sleep ==
    /\ connPc = "sleep"
    /\ waits' = Append(waits, Pow2(attempt))
    /\ attempt' = attempt + 1
    /\ connPc' = "attempt"
    /\ UNCHANGED <<now, max_retries, outcomes, dueVars, winVars, cloudVars, runVars,
                   codecVars, raceVars, stampVars, modVars>>

ConnNext == Attempt \/ Sleep

SpecConnect == ConnInit /\ [][ConnNext]_vars

\* the loop is scheduled like any sequential code: an enabled step is taken
FairSpecConnect == SpecConnect /\ WF_vars(ConnNext)

----------------------------------------------------------------------------
(* C1: for a Daily policy the decision is due exactly when now is at or    *)
(* after the instant obtained by reading (UTC date of now, start_time) in  *)
(* the policy's zone; now equal to that instant counts as due.             *)

\* the scheduled instant as the claim states it
DailyScheduledInstant(p, t) == (t \div 24) * 24 + p.start_time - UtcOffset(p.timezone)

\* C1: a Daily decision is due iff now >= the scheduled instant
C1_DailyDueIffAtOrAfterScheduled ==
    (duePc = "done" /\ policy.class = "daily") =>
        /\ decision.raised = "none"
        /\ to_instant(decision.scheduled_time_utc) = DailyScheduledInstant(policy, now)
        /\ decision.is_due = (now >= DailyScheduledInstant(policy, now))

\* a Daily policy evaluated exactly at its scheduled instant, in a zone other than UTC
C1_Witness ==
    /\ duePc = "done"
    /\ policy.class = "daily"
    /\ policy.timezone = "Pacific/Honolulu"
    /\ now = DailyScheduledInstant(policy, now)
    /\ decision.is_due

----------------------------------------------------------------------------
(* C2: once a managed snapshot of a (volume, daily) exists with created_at *)
(* inside the window of a due Daily decision, an invocation that evaluates *)
(* that window reports skip for the item and issues no create call.        *)

\* the last item was a due Daily decision whose window already held a
\* managed snapshot of that volume and class
DailyWindowSatisfied ==
    /\ last.kind = "create"
    /\ last.frequency = "daily"
    /\ last.schedule.raised = "none"
    /\ last.schedule.is_due
    /\ \E c \in last.existing :
          /\ to_instant(last.schedule.scheduled_time_utc) <= c
          /\ c <= to_instant(last.schedule.scheduled_time_utc) + 24

\* C2: a due Daily item whose window already holds a managed snapshot is skipped
\* and issues no create call
C2_SkipOnceSnapshotInWindow ==
    DailyWindowSatisfied => (last.result = "skipped" /\ last.calls = <<>>)

----------------------------------------------------------------------------
(* C3: the window check answers true exactly when some fetched snapshot    *)
(* was created within [window_start, window_end], both ends included,      *)
(* window_end being one day, seven days or one calendar month (clamped to  *)
(* the last day of a shorter month) after window_start; false on no list.  *)

\* the end of the window as the claim states it, in hours since the epoch
ClaimedWindowEnd(ws, frequency) ==
    LET d    == DayToDate(ws \div 24)
        y    == IF d.month = 12 THEN d.year + 1 ELSE d.year
        m    == IF d.month = 12 THEN 1 ELSE d.month + 1
        last_day == DaysInMonth(y, m)
        day  == IF d.day < last_day THEN d.day ELSE last_day
    IN  CASE frequency = "daily"  -> ws + 24
          [] frequency = "weekly" -> ws + 7 * 24
          [] OTHER                -> DateToDay(y, m, day) * 24 + (ws % 24)

\* C3: the window check is true iff a fetched snapshot lies in [window_start, window_end]
C3_InWindowIffCreatedWithinInclusive ==
    winPc = "done" =>
        LET ws == winArgs.schedule.scheduled_time_utc.plain
            we == ClaimedWindowEnd(ws, winArgs.frequency)
        IN  winResult = (\E i \in 1..Len(winArgs.listed) :
                            /\ ws <= winArgs.listed[i].created_at
                            /\ winArgs.listed[i].created_at <= we)

\* a monthly window from 31 January whose only snapshot was created exactly at
\* its clamped end, 29 February
C3_Witness ==
    /\ winPc = "done"
    /\ winArgs.frequency = "monthly"
    /\ winArgs.schedule.scheduled_time_utc.plain = DateToDay(2024, 1, 31) * 24 + 9
    /\ Len(winArgs.listed) = 1
    /\ winArgs.listed[1].created_at = DateToDay(2024, 2, 29) * 24 + 9
    /\ winResult

----------------------------------------------------------------------------
(* C4: a create call is issued for an item only when its policy is present *)
(* and enabled, the decision is due and the window check found nothing;    *)
(* when the policy is absent or disabled, or the decision is not due, or a *)
(* snapshot exists in the window, the item is reported as skipped and no   *)
(* create call is made.                                                    *)

\* a managed snapshot of the item's volume and class lies in the window of its decision
SnapshotInWindowOfLast ==
    /\ last.schedule.raised = "none"
    /\ last.schedule.is_due
    /\ \E c \in last.existing :
          /\ to_instant(last.schedule.scheduled_time_utc) <= c
          /\ c <= to_instant(window_end(last.schedule.scheduled_time_utc, last.frequency))

\* C4: a create call only for an enabled, due, not yet satisfied item; every other
\* item is reported as skipped without a create call
C4_CreateOnlyWhenDueElseSkipped ==
    last.kind = "create" =>
        /\ (last.calls # <<>>) => last.why = "due"
        /\ (last.why # "due" \/ SnapshotInWindowOfLast) =>
              (last.result = "skipped" /\ last.calls = <<>>)

----------------------------------------------------------------------------
(* C5: when setting the tags fails after the snapshot was created, the     *)
(* next call is a delete of that same snapshot and the operation raises    *)
(* SnapshotCreationError; the snapshot is not returned as created.         *)

\* C5: a failed set_metadata is followed by a delete of the same snapshot and by
\* SnapshotCreationError
C5_TagFailureRollsBackAndRaises ==
    last.kind = "create" =>
        \A i \in 1..Len(last.calls) :
            (last.calls[i].op = "set_metadata" /\ ~last.calls[i].ok) =>
                /\ i < Len(last.calls)
                /\ last.calls[i + 1].op = "delete"
                /\ last.calls[i + 1].snapshot = last.calls[i].snapshot
                /\ last.exc = "SnapshotCreationError"
                /\ last.result # "created"

\* the tags could not be set and the delete call that followed went through
C5_Witness ==
    /\ last.kind = "create"
    /\ Len(last.calls) = 3
    /\ last.calls[1].op = "create" /\ last.calls[1].ok
    /\ last.calls[2].op = "set_metadata" /\ ~last.calls[2].ok
    /\ last.calls[3].op = "delete" /\ last.calls[3].ok
    /\ last.exc = "SnapshotCreationError"

----------------------------------------------------------------------------
(* C6: after create_snapshot_with_metadata finished, the snapshot it made  *)
(* either carries the full set of retention tags or does not exist.        *)

FullyTagged(snap) ==
    /\ snap.tags.managed = "true"
    /\ snap.tags.frequency_type \in FrequencySet
    /\ snap.tags.retention_days.text # "absent"
    /\ snap.tags.expiry.text = "iso"
    /\ snap.tags.expiry_zoned.text = "iso"

\* the snapshots in the cloud that the last call of create_snapshot_with_metadata made
MadeByLast == {x \in snapshots : last.calls # <<>> /\ x.id = last.calls[1].snapshot}

\* C6: the snapshot made by the call is fully tagged or gone
C6_NoUntaggedSnapshotLeft ==
    last.kind = "create" => \A x \in MadeByLast : FullyTagged(x)

\* C6 as amended: when the call returns, the snapshot exists and carries the
\* full set of tags; when it raises SnapshotCreationError, a delete of the
\* snapshot was issued and the snapshot is left, untagged, only if that delete
\* failed; the only other way an untagged snapshot is left is the create call
\* itself raising after the cloud made the snapshot.
C6_UntaggedOnlyAfterFailedCleanup ==
    last.kind = "create" =>
        /\ last.result = "created" => (MadeByLast # {} /\ \A x \in MadeByLast : FullyTagged(x))
        /\ last.exc = "SnapshotCreationError" =>
              /\ Len(last.calls) = 3
              /\ last.calls[3].op = "delete"
              /\ last.calls[3].snapshot = last.calls[1].snapshot
              /\ (MadeByLast # {}) = ~last.calls[3].ok
        /\ \A x \in MadeByLast :
              \/ FullyTagged(x)
              \/ last.calls[Len(last.calls)].op = "delete" /\ ~last.calls[Len(last.calls)].ok
              \/ last.calls[Len(last.calls)].op = "create" /\ ~last.calls[Len(last.calls)].ok

\* the tags could not be set, the delete went through and the snapshot is gone
C6_Witness ==
    /\ last.kind = "create"
    /\ last.exc = "SnapshotCreationError"
    /\ last.calls[3].ok
    /\ MadeByLast = {}

----------------------------------------------------------------------------
(* C7: for decodable retention tags, the snapshot counts as expired        *)
(* exactly when now >= the expiry instant of its tags: expired at the      *)
(* expiry instant itself, not expired one tick before.                     *)

\* C7: expired iff now >= the expiry instant of the tags
C7_ExpiredIffAtOrAfterExpiry ==
    (last.kind = "expiry" /\ SnapshotMetadataDecodes(last.tags) /\ last.tags.expiry.text = "iso") =>
        /\ last.result \in {"expired", "active"}
        /\ (last.result = "expired") = (last.at >= last.tags.expiry.value)

\* a snapshot evaluated exactly at its expiry instant
C7_Witness ==
    /\ last.kind = "expiry"
    /\ last.tags.expiry.text = "iso"
    /\ last.at = last.tags.expiry.value
    /\ last.result = "expired"

----------------------------------------------------------------------------
(* C8: in the expiry pass a snapshot whose retention tags are missing or   *)
(* malformed gets no delete call and stays; the failure is raised to the   *)
(* loop as an error for that snapshot.                                     *)

\* C8: a snapshot with missing or malformed retention tags is never deleted and
\* its failure is raised
C8_UndecodableNeverDeleted ==
    (last.kind = "expiry" /\ (~SnapshotMetadataDecodes(last.tags) \/ last.tags.expiry.text # "iso")) =>
        /\ last.calls = <<>>
        /\ last.exc # "none"
        /\ last.result = "error"
        /\ \E x \in snapshots : x.id = last.snapshot

\* a managed snapshot without an expiry tag went through the expiry pass
C8_Witness ==
    /\ last.kind = "expiry"
    /\ last.tags.expiry.text = "absent"
    /\ last.exc = "ValidationError"
    /\ \E x \in snapshots : x.id = last.snapshot

----------------------------------------------------------------------------
(* C9: run_snapshot_workflow processes every volume the listing returned   *)
(* exactly once and in list order, whatever failed on the way, and raises  *)
(* only when the listing itself failed.                                    *)

Ids(seq) == [i \in 1..Len(seq) |-> seq[i].id]

\* C9: every listed volume is processed once, in order; the workflow raises only
\* on a failed listing
C9_EveryVolumeProcessedInOrder ==
    workflow = "snapshot" =>
        /\ Len(processed) <= Len(work)
        /\ Ids(processed) = SubSeq(Ids(work), 1, Len(processed))
        /\ pc = "done" => Ids(processed) = Ids(work)
        /\ pc = "raised" => (processed = <<>> /\ last.kind = "none")

\* the first volume failed and the workflow still went through all of them
C9_Witness ==
    /\ workflow = "snapshot"
    /\ pc = "done"
    /\ Len(processed) >= 2
    /\ processed[1].failed
    /\ Ids(processed) = Ids(work)

----------------------------------------------------------------------------
(* C10: run_expiry_workflow processes every managed snapshot the listing   *)
(* returned exactly once, whatever failed on the way, and raises only when *)
(* the listing itself failed.                                              *)

\* C10: every listed snapshot is processed once; the workflow raises only on a
\* failed listing
C10_EverySnapshotProcessed ==
    workflow = "expiry" =>
        /\ Len(processed) <= Len(work)
        /\ Ids(processed) = SubSeq(Ids(work), 1, Len(processed))
        /\ pc = "done" => Ids(processed) = Ids(work)
        /\ pc = "raised" => (processed = <<>> /\ last.kind = "none")

\* the first snapshot failed to decode and the workflow still went through all of them
C10_Witness ==
    /\ workflow = "expiry"
    /\ pc = "done"
    /\ Len(processed) >= 2
    /\ processed[1].failed
    /\ Ids(processed) = Ids(work)

----------------------------------------------------------------------------
(* C11: when the listing call of a workflow fails (volumes in the create   *)
(* pass, managed snapshots in the expiry pass), the workflow raises to its *)
(* caller and has issued no create, tag or delete call.                    *)

\* C11: a failed top-level listing makes the workflow raise without any cloud call
C11_ListingFailureRaisesWithoutCalls ==
    /\ (workflow # "none" /\ last.kind = "none" /\ ~last.listed) =>
          (pc = "raised" /\ ncalls = 0 /\ processed = <<>>)
    /\ pc = "raised" => (ncalls = 0 /\ last.kind = "none" /\ ~last.listed)

\* the expiry pass could not list the managed snapshots while one was in the cloud
C11_Witness ==
    /\ workflow = "expiry"
    /\ pc = "raised"
    /\ ~last.listed
    /\ snapshots # {}
    /\ ncalls = 0

----------------------------------------------------------------------------
(* C12: a Weekly policy evaluated on a day other than its start_day gets a *)
(* decision with is_due = false whose reason is the day mismatch, whatever *)
(* its start_time.                                                         *)

\* the call was made for a Weekly policy on a day other than its start_day
WeeklyDayMismatch ==
    /\ duePc = "done"
    /\ policy.class = "weekly"
    /\ DayName(Weekday(DayOf(now))) # policy.start_day

\* C12: on a day other than start_day a Weekly decision is returned, not due, with
\* the day-mismatch reason
C12_WeeklyOffDayReturnsNotDue ==
    WeeklyDayMismatch =>
        /\ decision.raised = "none"
        /\ ~decision.is_due
        /\ decision.reason = "day mismatch"

----------------------------------------------------------------------------
(* C13: a Monthly policy whose start_date does not exist in the current    *)
(* month is due on the last day of that month, once the time gate holds,   *)
(* and on no other day of that month.                                      *)

\* the length of the month of the UTC day of instant t
CurrentMonthLength(t) ==
    DaysInMonth(DayToDate(DayOf(t)).year, DayToDate(DayOf(t)).month)

\* the call was made for a Monthly policy whose start_date the current month lacks
MonthlyStartDateMissing ==
    /\ duePc = "done"
    /\ policy.class = "monthly"
    /\ policy.start_date > CurrentMonthLength(now)

\* C13: with start_date beyond the month's end the policy is due on the month's
\* last day from the scheduled instant on, and on no other day
C13_MonthlyClampsToLastDay ==
    MonthlyStartDateMissing =>
        (decision.raised = "none" /\ decision.is_due)
            = (/\ DayToDate(DayOf(now)).day = CurrentMonthLength(now)
               /\ now >= DailyScheduledInstant(policy, now))

\* start_date 31 evaluated on 30 April at the scheduled instant: due
C13_Witness ==
    /\ MonthlyStartDateMissing
    /\ policy.start_date = 31
    /\ DayOf(now) = DateToDay(2024, 4, 30)
    /\ now = DailyScheduledInstant(policy, now)
    /\ decision.is_due

----------------------------------------------------------------------------
(* C14: a Monthly decision has is_due = true exactly when today's day of   *)
(* the month is the effective day (start_date, or the last day of a month  *)
(* without such a day) and now >= scheduled_time_utc.                      *)

\* the effective day of a Monthly policy in the month of the UTC day of instant t
EffectiveDay(p, t) ==
    IF p.start_date <= CurrentMonthLength(t) THEN p.start_date ELSE CurrentMonthLength(t)

\* C14: Monthly is due iff today is the effective day and now >= the scheduled instant
C14_MonthlyDueIffEffectiveDayAndTime ==
    (duePc = "done" /\ policy.class = "monthly") =>
        (decision.raised = "none" /\ decision.is_due)
            = (/\ DayToDate(DayOf(now)).day = EffectiveDay(policy, now)
               /\ now >= DailyScheduledInstant(policy, now))

\* start_date 1 in a zone ahead of UTC, evaluated on 1 March before 09:00 UTC:
\* the scheduled instant lies on 29 February, in the month before, and the
\* policy is due
C14_Witness ==
    /\ duePc = "done"
    /\ policy.class = "monthly"
    /\ policy.start_date = 1
    /\ policy.timezone = "Pacific/Kiritimati"
    /\ now = DateToDay(2024, 3, 1) * 24 + 8
    /\ DayOf(to_instant(decision.scheduled_time_utc)) = DateToDay(2024, 2, 29)
    /\ decision.is_due

----------------------------------------------------------------------------
(* C15: for Weekly and Monthly policies a failed day/date gate gives the   *)
(* day-mismatch reason, also when the time gate would fail too; the        *)
(* window-mismatch reason is given only when the day/date matches and      *)
(* now < scheduled_time_utc.                                               *)

\* the day/date gate of the policy fails at instant now
DayGateFails ==
    \/ policy.class = "weekly" /\ DayName(Weekday(DayOf(now))) # policy.start_day
    \/ policy.class = "monthly" /\ DayToDate(DayOf(now)).day # EffectiveDay(policy, now)

\* C15: a failed day gate is reported with the day-mismatch reason, a failed time
\* gate with the window-mismatch reason, and only then
C15_NotDueCausesDistinguishable ==
    (duePc = "done" /\ policy.class \in {"weekly", "monthly"}) =>
        /\ DayGateFails =>
              (decision.raised = "none" /\ ~decision.is_due /\ decision.reason = "day mismatch")
        /\ (decision.raised = "none" /\ decision.reason = "window mismatch") =>
              (~DayGateFails /\ now < DailyScheduledInstant(policy, now))

----------------------------------------------------------------------------
(* C16: encoding a subscription (the volume-level flag and any of the      *)
(* three policies, enabled or disabled) and decoding the tags again gives  *)
(* the subscription back.                                                  *)

\* a subscription was encoded and its tags were decoded again
RoundTripDone == codecPc = "done" /\ subscription # None

\* C16: decoding the encoded tags of a subscription returns that subscription
C16_RoundTrip ==
    RoundTripDone => (decoded.raised = "none" /\ decoded.value = subscription)

\* what decoding keeps of a policy: a disabled policy is dropped
KeptPolicy(p) == IF p = None THEN None ELSE IF p.is_enabled THEN p ELSE None

\* C16 as amended: decoding the encoded tags returns the subscription with every
\* field of the flag and of the enabled policies unchanged and with each disabled
\* policy replaced by None; a subscription whose policies are all enabled or
\* absent is returned as it was
C16_RoundTripOfEnabledPolicies ==
    RoundTripDone =>
        /\ decoded.raised = "none"
        /\ decoded.value =
              [is_enabled |-> subscription.is_enabled,
               snapshot_policy_daily |-> KeptPolicy(subscription.snapshot_policy_daily),
               snapshot_policy_weekly |-> KeptPolicy(subscription.snapshot_policy_weekly),
               snapshot_policy_monthly |-> KeptPolicy(subscription.snapshot_policy_monthly)]

\* an enabled Daily policy in a zone other than UTC with the default start_time,
\* no Weekly policy and an enabled Monthly policy on the 31st came back unchanged
C16_Witness ==
    /\ RoundTripDone
    /\ subscription.snapshot_policy_daily # None
    /\ subscription.snapshot_policy_daily.is_enabled
    /\ subscription.snapshot_policy_daily.timezone = "Asia/Tokyo"
    /\ subscription.snapshot_policy_daily.start_time = DefaultStartTime
    /\ subscription.snapshot_policy_weekly = None
    /\ subscription.snapshot_policy_monthly # None
    /\ subscription.snapshot_policy_monthly.is_enabled
    /\ subscription.snapshot_policy_monthly.start_date = 31
    /\ decoded.value = subscription

----------------------------------------------------------------------------
(* C17: decoding never fails because a tag is missing: a volume without    *)
(* tags decodes to not subscribed with no policy, and in a class whose     *)
(* enabled tag is "true" every missing field takes its default: start_time *)
(* 23:29, timezone UTC, retention_days 7 (daily), 30 (weekly), 90          *)
(* (monthly).                                                              *)

\* the tags of a volume were decoded as they were found
RawDecodeDone == codecPc = "done" /\ subscription = None /\ projectVolumes = <<>>

\* the tags of one class other than its enabled tag are missing or hold a value
\* of the documented form and range
FieldsWellFormed(t) ==
    /\ t.start_time.kind = "absent"
          \/ (t.start_time.kind = "time" /\ t.start_time.h \in 0..23 /\ t.start_time.m \in 0..59)
    /\ t.timezone.kind = "absent" \/ (t.timezone.kind = "word" /\ t.timezone.s \in Timezones)
    /\ t.retention_type \in {Absent, Word("time")}
    /\ t.retention_days.kind = "absent"
          \/ (t.retention_days.kind = "decimal" /\ t.retention_days.n \in 1..3650)
    /\ t.start_day.kind = "absent" \/ (t.start_day.kind = "word" /\ t.start_day.s \in DayNames)
    /\ t.start_date.kind = "absent"
          \/ (t.start_date.kind = "decimal" /\ t.start_date.n \in 1..31)

\* a boolean tag is missing or is "true" or "false"
BooleanWellFormed(tag) == tag \in {Absent, Word("true"), Word("false")}

\* the decoded policy of a class
DecodedPolicy(class) ==
    CASE class = "daily"  -> decoded.value.snapshot_policy_daily
      [] class = "weekly" -> decoded.value.snapshot_policy_weekly
      [] OTHER            -> decoded.value.snapshot_policy_monthly

\* the default retention_days of a class as documented
DocumentedRetentionDays(class) ==
    CASE class = "daily" -> 7 [] class = "weekly" -> 30 [] OTHER -> 90

----------------------------------------------------------------------------
(* C18: after decode a class policy is present only if the enabled tag of  *)
(* the class is "true"; when that tag is missing or holds a malformed      *)
(* boolean the class decodes as disabled (no policy) and no error is       *)
(* raised.                                                                 *)

\* C18: whatever the enabled tags hold, decoding raises nothing and a class has a
\* policy only when its enabled tag is "true"
C18_PolicyPresentIffEnabledTagTrue ==
    (/\ RawDecodeDone
     /\ BooleanWellFormed(volumeMetadata.managed)
     /\ \A c \in FrequencySet : FieldsWellFormed(volumeMetadata[c])) =>
        /\ decoded.raised = "none"
        /\ \A c \in FrequencySet :
              DecodedPolicy(c) # None => volumeMetadata[c].enabled = Word("true")

----------------------------------------------------------------------------
(* C19: a volume whose tags hold an invalid timezone or an out-of-range    *)
(* numeric field fails to decode; the scan of subscribed volumes leaves    *)
(* that volume out and still returns every other volume whose tags decode  *)
(* with the volume-level flag enabled.                                     *)

\* the tags decode by the documented rules and carry the volume-level flag
DocumentedSubscribed(v) ==
    /\ v.metadata.managed = Word("true")
    /\ \A c \in FrequencySet :
          FieldsWellFormed(v.metadata[c]) /\ BooleanWellFormed(v.metadata[c].enabled)

\* C19: the scan returns, in listing order, exactly the volumes whose tags are
\* valid and flagged; a volume with an invalid timezone or an out-of-range
\* number is left out
C19_ScanLeavesOutInvalidVolumes ==
    (codecPc = "done" /\ projectVolumes # <<>>) =>
        [i \in 1..Len(subscribed) |-> subscribed[i].id]
            = [i \in 1..Len(SelectSeq(projectVolumes, DocumentedSubscribed)) |->
                  SelectSeq(projectVolumes, DocumentedSubscribed)[i].id]

----------------------------------------------------------------------------
(* C20: every snapshot the engine creates carries an expiry tag equal to   *)
(* the decision's scheduled_time_utc plus retention_days days of the       *)
(* policy, and retention-days and frequency-type tags equal to the         *)
(* policy's retention_days and to the recurrence class.                    *)

\* C20: the tags of a created snapshot are the scheduled instant plus the policy's
\* retention_days days, the retention_days and the class
C20_ExpiryIsScheduledPlusRetention ==
    (last.kind = "create" /\ last.result = "created") =>
        \A x \in MadeByLast :
            /\ x.tags.expiry =
                  FormatIso(to_instant(last.schedule.scheduled_time_utc)
                            + 24 * get_policy(volumes[last.volume], last.frequency).retention_days)
            /\ x.tags.retention_days =
                  FormatInt(get_policy(volumes[last.volume], last.frequency).retention_days)
            /\ x.tags.frequency_type = last.frequency

\* a Weekly snapshot scheduled on Wednesday 31 January 2024 at 09:00 UTC with 30
\* days of retention: it expires on 1 March at 09:00 UTC
C20_Witness ==
    /\ last.kind = "create"
    /\ last.result = "created"
    /\ last.frequency = "weekly"
    /\ get_policy(volumes[last.volume], "weekly").retention_days = 30
    /\ to_instant(last.schedule.scheduled_time_utc) = DateToDay(2024, 1, 31) * 24 + 9
    /\ \E x \in MadeByLast :
          /\ x.tags.expiry = FormatIso(DateToDay(2024, 3, 1) * 24 + 9)
          /\ x.tags.retention_days = FormatInt(30)
          /\ x.tags.frequency_type = "weekly"

----------------------------------------------------------------------------
(* C22: when setting the tags fails and the delete that should remove the  *)
(* orphaned snapshot fails too, the (volume, class) item is counted as     *)
(* errored, neither created nor skipped, and the pass goes on with the     *)
(* remaining classes and volumes.                                          *)

\* the item processed last had its tags refused and its cleanup delete refused
TagAndDeleteFailed ==
    /\ last.kind = "create"
    /\ Len(last.calls) = 3
    /\ last.calls[2].op = "set_metadata" /\ ~last.calls[2].ok
    /\ last.calls[3].op = "delete" /\ ~last.calls[3].ok

\* position of a class in SnapshotFrequency.all()
FrequencyIndex(f) == CHOOSE i \in 1..Len(Frequencies) : Frequencies[i] = f

\* C22: an item whose tag call and cleanup delete both failed counts as errored
\* and the loop goes on: to the next class of the volume, or past the volume
C22_FailedCleanupCountsAsErrored ==
    TagAndDeleteFailed =>
        /\ last.result = "errored"
        /\ pc \in {"create", "done"}
        /\ IF FrequencyIndex(last.frequency) < Len(Frequencies)
           THEN /\ pc = "create"
                /\ work[idx].id = last.volume
                /\ fi = FrequencyIndex(last.frequency) + 1
                /\ counts.errors >= 1
                /\ counts.created + counts.skipped + counts.errors = fi - 1
           ELSE /\ processed # <<>>
                /\ processed[Len(processed)].id = last.volume
                /\ ~processed[Len(processed)].failed
                /\ processed[Len(processed)].counts.errors >= 1
                /\ (pc = "done") = (Len(processed) = Len(work))

\* the Daily item of the first volume lost its tags and its cleanup; the untagged
\* snapshot is still there and the Weekly item of the same volume is next
C22_Witness ==
    /\ TagAndDeleteFailed
    /\ last.frequency = "daily"
    /\ last.result = "errored"
    /\ MadeByLast # {}
    /\ pc = "create"
    /\ fi = 2
    /\ counts = [created |-> 0, skipped |-> 0, errors |-> 1]

----------------------------------------------------------------------------
(* C23: the weekday the Weekly gate compares with start_day is the weekday *)
(* of now in the policy's timezone: at an instant whose UTC weekday and    *)
(* policy-timezone weekday differ, the gate passes exactly when the        *)
(* policy-timezone weekday equals start_day.                               *)

\* the weekday of instant t read in zone tz
LocalWeekday(t, tz) == DayName(Weekday(DayOf(t + UtcOffset(tz))))

\* the day gate let the decision through to the time check
WeeklyGatePassed ==
    decision.raised = "none" /\ decision.reason \in {"window matched", "window mismatch"}

\* C23: where the UTC weekday and the policy-timezone weekday of now differ, the
\* Weekly gate passes iff the policy-timezone weekday is start_day
C23_WeeklyGateUsesPolicyTimezoneWeekday ==
    (/\ duePc = "done"
     /\ policy.class = "weekly"
     /\ LocalWeekday(now, "UTC") # LocalWeekday(now, policy.timezone)) =>
        WeeklyGatePassed = (LocalWeekday(now, policy.timezone) = policy.start_day)

----------------------------------------------------------------------------
(* C24: every policy object that decode produces, of each of the three     *)
(* classes, has retention_days within 1..3650 and, for Monthly, start_date *)
(* within 1..31: a retention-days tag of 0, a negative number or a number  *)
(* above 3650 never yields a policy.                                       *)

\* C24: a decoded policy has retention_days in 1..3650 and start_date in 1..31
C24_DecodedPolicyWithinRanges ==
    (codecPc = "done" /\ projectVolumes = <<>> /\ decoded.raised = "none") =>
        \A c \in FrequencySet :
            DecodedPolicy(c) # None =>
                /\ DecodedPolicy(c).retention_days \in 1..3650
                /\ c = "monthly" => DecodedPolicy(c).start_date \in 1..31

----------------------------------------------------------------------------
(* C25: in every schedule decision that carries the window fields,         *)
(* scheduled_time_utc and scheduled_time_local denote the same instant,    *)
(* for every policy timezone and start_time.                               *)

\* C25: the two scheduled times of a decision are one instant, read in UTC and
\* in the zone of the policy
C25_ScheduledTimesSameInstant ==
    (duePc = "done" /\ decision.raised = "none") =>
        /\ to_instant(decision.scheduled_time_utc) = to_instant(decision.scheduled_time_local)
        /\ decision.scheduled_time_utc.tz = "UTC"
        /\ decision.scheduled_time_local.tz = policy.timezone

\* a Daily policy at 23:00 in Pacific/Kiritimati: the local reading is 23:00 of
\* today, the UTC reading 09:00 of the same day
C25_Witness ==
    /\ duePc = "done"
    /\ decision.raised = "none"
    /\ policy.class = "daily"
    /\ policy.timezone = "Pacific/Kiritimati"
    /\ policy.start_time = 23
    /\ decision.scheduled_time_local.plain = DayOf(now) * 24 + 23
    /\ decision.scheduled_time_utc.plain = DayOf(now) * 24 + 9

----------------------------------------------------------------------------
(* C26: within one volume the three classes are evaluated independently:   *)
(* a failure while evaluating or creating for one class, whatever failed,  *)
(* does not keep the remaining classes of the volume from being evaluated  *)
(* in the same pass.                                                       *)

\* C26: after an item that failed, the next class of the same volume is evaluated
C26_FailedClassDoesNotStopTheOthers ==
    (/\ last.kind = "create"
     /\ last.exc # "none"
     /\ FrequencyIndex(last.frequency) < Len(Frequencies)) =>
        /\ pc = "create"
        /\ work[idx].id = last.volume
        /\ fi = FrequencyIndex(last.frequency) + 1

----------------------------------------------------------------------------
(* C28: the snapshot name is a function of the class, the volume id and    *)
(* scheduled_time_local only, of the form                                  *)
(* managed-<class>-<volume_id>-<local scheduled timestamp>: invocations    *)
(* that evaluate the same class, volume and scheduled window give the same *)
(* name, whatever the instant of the invocation.                           *)

\* the name the claim describes for a class, a volume and a decision
ClaimedName(frequency, volume_id, schedule) ==
    [prefix |-> "managed", frequency |-> frequency, volume_id |-> volume_id,
     timestamp |-> schedule.scheduled_time_local]

\* C28: a created snapshot is named after its class, its volume and the local
\* scheduled time of its decision; snapshots of one volume and class made on the
\* same UTC day, hence for the same scheduled window, carry the same name
C28_NameFromClassVolumeAndLocalSchedule ==
    /\ last.kind = "create" =>
          \A x \in MadeByLast :
              x.name = ClaimedName(last.frequency, last.volume, last.schedule)
    /\ \A x, y \in snapshots :
          (/\ x.volume_id = y.volume_id
           /\ x.name.frequency = y.name.frequency
           /\ DayOf(x.created_at) = DayOf(y.created_at)) => x.name = y.name

\* two snapshots of one volume and class made at different instants of the same
\* day by two invocations carry the same name
C28_Witness ==
    \E x, y \in snapshots :
        /\ x.id # y.id
        /\ x.volume_id = y.volume_id
        /\ x.name = y.name
        /\ x.name.timestamp.tz = "Pacific/Kiritimati"
        /\ x.created_at # y.created_at
        /\ DayOf(x.created_at) = DayOf(y.created_at)

----------------------------------------------------------------------------
(* C29: whenever the create pass creates a snapshot at instant now for a   *)
(* due decision, now lies inside the dedup window of that decision,        *)
(* [scheduled_time_utc, scheduled_time_utc + period], for every policy     *)
(* timezone and start_time, so that a later invocation on the same UTC day *)
(* finds the snapshot in its window and skips.                             *)

\* C29: a snapshot is created at an instant inside the window of its own decision
C29_CreatedInsideOwnWindow ==
    (last.kind = "create" /\ last.result = "created") =>
        /\ to_instant(last.schedule.scheduled_time_utc) <= last.at
        /\ last.at <= to_instant(window_end(last.schedule.scheduled_time_utc, last.frequency))

----------------------------------------------------------------------------
(* C30: every enabled Daily policy eventually becomes due: for every       *)
(* start_time and every policy timezone, ahead of or behind UTC, each UTC  *)
(* calendar day contains an instant at which is_due is true, so a          *)
(* scheduler that runs the create pass often enough eventually creates a   *)
(* snapshot for the policy.                                                *)

\* the hours of the UTC day of instant t
HoursOfDay(t) == {DayOf(t) * 24 + h : h \in 0..23}

\* C30: on the UTC day of now there is an instant at which the Daily policy is due
C30_DailyDueOnEveryDay ==
    (duePc = "done" /\ policy.class = "daily" /\ policy.is_enabled) =>
        \E t \in HoursOfDay(now) : DailyIsSnapshotDue(policy, t).is_due

----------------------------------------------------------------------------
(* C27: decode ignores foreign tags and encode never emits them: adding    *)
(* extra keys to a tag mapping does not change the decoded subscription,   *)
(* and every key encode emits is an x-<organization>-<class>-<field> key   *)
(* of the volume-level flag or of a policy present in the subscription.    *)

\* the tags of a volume without the tags whose key is not a snapsentry key
WithoutForeignTags(data) == [data EXCEPT !.extra = {}]

\* the policy of a class in the subscription that was encoded
EncodedPolicy(class) ==
    CASE class = "daily"  -> subscription.snapshot_policy_daily
      [] class = "weekly" -> subscription.snapshot_policy_weekly
      [] OTHER            -> subscription.snapshot_policy_monthly

\* C27: the tags decode to what they decode to without the foreign tags; the tags
\* encode emits hold no foreign key and no key of a class without a policy
C27_ForeignTagsIgnoredAndNeverEmitted ==
    /\ RawDecodeDone =>
          decoded = parse_subscription(WithoutForeignTags(volumeMetadata))
    /\ (subscription # None /\ volumeMetadata # None) =>
          /\ volumeMetadata.extra = {}
          /\ \A c \in FrequencySet :
                EncodedPolicy(c) = None => volumeMetadata[c] = AbsentClassTags

----------------------------------------------------------------------------
(* C21: with two invocations of the create pass interleaved on the same    *)
(* (volume, class), a state is reachable in which both observed no         *)
(* existing snapshot in the window and both created one: two managed       *)
(* snapshots inside one window.  When the invocations never overlap that   *)
(* state is unreachable.                                                   *)

\* the managed snapshot invocation i made lies in the window of its decision
MadeInWindow(i) ==
    \E x \in snapshots :
        /\ x.id = racers[i].made
        /\ x.tags.managed = "true"
        /\ x.tags.frequency_type = raced.frequency
        /\ to_instant(racers[i].schedule.scheduled_time_utc) <= x.created_at
        /\ x.created_at <= to_instant(window_end(racers[i].schedule.scheduled_time_utc,
                                                 raced.frequency))

\* invocations i and j both listed the snapshots of the item, both found none in
\* the same window, and both created a managed snapshot inside it
DoubleCreated(i, j) ==
    /\ racers[i].observed = "none in window" /\ racers[j].observed = "none in window"
    /\ racers[i].made # 0 /\ racers[j].made # 0
    /\ racers[i].schedule = racers[j].schedule
    /\ MadeInWindow(i) /\ MadeInWindow(j)

----------------------------------------------------------------------------
(* C31: when fetching the existing managed snapshots of a (volume, class)  *)
(* fails during the dedup check, the create pass creates no snapshot for   *)
(* that item in that invocation: a listing failure is never taken for 'no  *)
(* snapshot exists in the window'.                                         *)

\* C31: no create call for an item whose dedup listing failed
C31_NoCreateAfterFailedListing ==
    (last.kind = "create" /\ last.listing = "failed") =>
        /\ last.calls = <<>>
        /\ last.result # "created"

----------------------------------------------------------------------------
(* C32: the Monthly is_snapshot_due returns a decision and never raises,   *)
(* for every valid Monthly policy and every instant, also when the         *)
(* scheduled UTC time lies in another month than today and start_date      *)
(* exceeds the length of either month.                                     *)

\* C32: a call of the Monthly due calculation ends in a returned decision
C32_MonthlyNeverRaises ==
    (duePc = "done" /\ policy.class = "monthly") => decision.raised = "none"

\* the fallback's replace(day=last_date) left the call as a ValueError
C32_FallbackRaised ==
    duePc = "done" /\ policy.class = "monthly" /\ decision.raised = "ValueError"

----------------------------------------------------------------------------
(* C33: the Monthly effective day is resolved against one month, today's,  *)
(* throughout: the test whether start_date exists and the last-day         *)
(* fallback both use today's month and year, so the day gate lets a call   *)
(* through exactly on the effective day of today's month.                  *)

\* the call got past the day gate: the time-window decision was returned
PassedDayGate ==
    decision.raised = "none"

\* C33: a Monthly call gets past the day gate iff today is the effective day
\* of today's month
C33_EffectiveDayFromTodaysMonth ==
    (duePc = "done" /\ policy.class = "monthly") =>
        PassedDayGate = (DayToDate(DayOf(now)).day = EffectiveDay(policy, now))

----------------------------------------------------------------------------
(* C34: the expiry pass issues a delete call for a managed snapshot only   *)
(* if its retention tags decoded and now >= its expiry instant; a snapshot *)
(* still inside its retention period is left untouched, and every managed  *)
(* snapshot past its expiry gets a delete call in that pass.               *)

\* the retention tags decode and the instant t is at or after their expiry
PastExpiry(tags, t) ==
    /\ SnapshotMetadataDecodes(tags)
    /\ tags.expiry.text = "iso"
    /\ t >= tags.expiry.value

\* C34: in the expiry pass every managed snapshot of the cloud is listed, and a
\* listed snapshot gets a delete call, and only that call, iff it is past its
\* expiry; otherwise it gets no call and stays
C34_DeleteIffPastExpiry ==
    (workflow = "expiry" /\ pc # "raised") =>
        /\ \A x \in snapshots : x.tags.managed = "true" => \E i \in 1..Len(work) : work[i].id = x.id
        /\ \A i \in 1..Len(processed) :
              /\ processed[i].id = work[i].id
              /\ IF PastExpiry(work[i].tags, processed[i].at)
                 THEN /\ Len(processed[i].calls) = 1
                      /\ processed[i].calls[1].op = "delete"
                      /\ processed[i].calls[1].snapshot = work[i].id
                 ELSE /\ processed[i].calls = <<>>
                      /\ work[i] \in snapshots

\* a pass that ended after one snapshot got its delete call and another, still
\* inside its retention period, was left in the cloud
C34_Witness ==
    /\ workflow = "expiry"
    /\ pc = "done"
    /\ \E i, j \in 1..Len(processed) :
          /\ processed[i].calls # <<>>
          /\ PastExpiry(work[i].tags, processed[i].at)
          /\ processed[j].calls = <<>>
          /\ SnapshotMetadataDecodes(work[j].tags)
          /\ work[j].tags.expiry.text = "iso"
          /\ work[j] \in snapshots

----------------------------------------------------------------------------
(* C35: in the expiry pass a snapshot is reported as successfully expired  *)
(* only if its delete call succeeded; when the delete call fails,          *)
(* process_snapshot_expiry reports a failure for that snapshot, which is   *)
(* still in the cloud for the next pass.                                   *)

\* the delete call of the last expiry item failed
DeleteOfLastFailed ==
    /\ last.kind = "expiry"
    /\ \E i \in 1..Len(last.calls) : last.calls[i].op = "delete" /\ ~last.calls[i].ok

\* C35: 'expired' is reported only for a snapshot that is gone, and a failed
\* delete is reported as a failure of that snapshot
C35_ExpiredOnlyIfDeleted ==
    /\ (last.kind = "expiry" /\ last.result = "expired") =>
          \A x \in snapshots : x.id # last.snapshot
    /\ DeleteOfLastFailed =>
          /\ last.exc # "none"
          /\ last.result = "error"
          /\ \E x \in snapshots : x.id = last.snapshot

----------------------------------------------------------------------------
(* C36: the two expiry tags written on a created snapshot, expiry-date in  *)
(* UTC and expiry-date-zoned in the policy timezone, denote the same       *)
(* instant for every policy timezone, also when a daylight-saving          *)
(* transition of that timezone falls between the scheduled time and the    *)
(* expiry.                                                                 *)

\* tags were generated for a due schedule
Stamped ==
    stampPc = "done" /\ stamped # NoTags

\* C36: the UTC expiry tag and the zoned expiry tag denote one instant
C36_ExpiryTagsSameInstant ==
    Stamped => stamped.expiry.value = stamped.expiry_zoned.value

\* tags generated in a zone without daylight saving: the two expiry tags agree
C36_FixedZonesAgree ==
    /\ Stamped
    /\ policy.timezone \notin DstZones
    /\ stamped.expiry.value = stamped.expiry_zoned.value

----------------------------------------------------------------------------
(* C37: a volume whose volume-level managed tag is absent or false is      *)
(* never processed by the create pass, whatever its per-class enabled tags *)
(* say: the scan that feeds the pass leaves it out.                        *)

\* the volume-level managed tag of the tags is missing or reads false
ManagedTagOff(tags) ==
    \/ tags.managed = Absent
    \/ tags.managed.kind = "word" /\ tags.managed.s \in FalseWords

\* C37: the scan of subscribed volumes returns no volume whose managed tag is
\* absent or false
C37_UnmanagedNeverProcessed ==
    (codecPc = "done" /\ projectVolumes # <<>>) =>
        \A i \in 1..Len(projectVolumes) :
            ManagedTagOff(projectVolumes[i].metadata) =>
                \A j \in 1..Len(subscribed) : subscribed[j].id # projectVolumes[i].id

\* a volume with the managed tag set to false and an enabled Daily policy was left out
C37_FalseTagLeftOut ==
    /\ codecPc = "done"
    /\ \E i \in 1..Len(projectVolumes) :
          /\ projectVolumes[i].metadata.managed = Word("false")
          /\ projectVolumes[i].metadata.daily.enabled = Word("true")
          /\ \A j \in 1..Len(subscribed) : subscribed[j].id # projectVolumes[i].id

----------------------------------------------------------------------------
(* C38: for every volume processed in a create pass the reported counts    *)
(* satisfy created + skipped + errored = 3, one outcome per recurrence     *)
(* class, and created is the number of snapshots actually created and      *)
(* tagged for that volume in that pass.                                    *)

\* the counters of every processed volume add up to the number of classes
CountsAddUp ==
    \A i \in 1..Len(processed) :
        processed[i].counts.created + processed[i].counts.skipped + processed[i].counts.errors
            = Len(Frequencies)

\* an item is counted as created exactly when its snapshot is in the cloud with
\* the full set of tags
CreatedCountsTaggedSnapshot ==
    last.kind = "create" =>
        (last.result = "created") = (MadeByLast # {} /\ \A x \in MadeByLast : FullyTagged(x))

\* C38: three counted outcomes per processed volume, and 'created' counts the
\* snapshots created and tagged
C38_CountsAddUpToThree ==
    workflow = "snapshot" => (CountsAddUp /\ CreatedCountsTaggedSnapshot)

\* every processed volume that was not left by an exception has three counted outcomes
C38_CompletedVolumesAddUp ==
    workflow = "snapshot" =>
        \A i \in 1..Len(processed) :
            ~processed[i].failed =>
                processed[i].counts.created + processed[i].counts.skipped
                    + processed[i].counts.errors = Len(Frequencies)

----------------------------------------------------------------------------
(* C39: update_subscription_info raises to its caller when the metadata    *)
(* update on the volume fails, so modify_snapsentry_subscription reports   *)
(* the subscription as successful only if the tags were actually written.  *)

\* the tags of the subscription are on the volume
SubscriptionWritten ==
    modTags = set_volume_metadata(modTags, to_openstack_metadata(subscription))

\* C39: a failed metadata update is raised, and success is reported only with
\* the tags written
C39_SuccessOnlyIfTagsWritten ==
    modPc = "done" =>
        /\ modResult.call = "failed" => modResult.status = "raised"
        /\ modResult.status = "success" => (modResult.call = "ok" /\ SubscriptionWritten)

\* the update went through: success is reported and the tags are on the volume
C39_WrittenAndReported ==
    /\ modPc = "done"
    /\ modResult.status = "success"
    /\ modResult.call = "ok"
    /\ SubscriptionWritten

----------------------------------------------------------------------------
(* C40: connect() always terminates after at most max_retries connection   *)
(* attempts: it returns the connection of the first successful attempt and *)
(* makes no further attempt, waits 2^attempt seconds only between attempts *)
(* (never after the last one), and raises RuntimeError iff all max_retries *)
(* attempts failed.                                                        *)

\* connect() returned or raised
ConnectEnded == connPc \in {"returned", "raised", "propagated"}

\* no more than max_retries attempts are made
AttemptsBounded == Len(outcomes) <= max_retries

\* an attempt that succeeded is the last one made, and its connection is returned
FirstSuccessReturned ==
    /\ \A i \in 1..Len(outcomes) :
          outcomes[i] = "ok" => (i = Len(outcomes) /\ connPc = "returned")
    /\ connPc = "returned" => (outcomes # <<>> /\ outcomes[Len(outcomes)] = "ok")

\* the i-th sleep lasts 2^(i-1) seconds, the loop variable of the failed attempt
\* being i-1, and there is one sleep between two attempts and none after the last
WaitsOnlyBetweenAttempts ==
    /\ \A i \in 1..Len(waits) : waits[i] = Pow2(i - 1)
    /\ connPc = "attempt" => Len(waits) = Len(outcomes)
    /\ connPc = "sleep" => Len(waits) = Len(outcomes) - 1
    /\ ConnectEnded => Len(waits) = (IF outcomes = <<>> THEN 0 ELSE Len(outcomes) - 1)

\* RuntimeError is raised iff max_retries attempts were made and each of them
\* failed with an exception the loop retries on
RuntimeErrorIffAllFailed ==
    (connPc = "raised")
        = (/\ ConnectEnded
           /\ Len(outcomes) = max_retries
           /\ \A i \in 1..Len(outcomes) : outcomes[i] \in Caught)

\* C40: connect() ends, within max_retries attempts, with the first success
\* returned, sleeps of 2^attempt seconds between attempts only, and RuntimeError
\* iff every one of the max_retries attempts failed
C40_ConnectEndsWithinMaxRetries ==
    /\ [](AttemptsBounded /\ FirstSuccessReturned /\ WaitsOnlyBetweenAttempts
            /\ RuntimeErrorIffAllFailed)
    /\ <>ConnectEnded

\* three attempts of three failed: two sleeps of 1 and 2 seconds, then RuntimeError
C40_Witness ==
    /\ max_retries = 3
    /\ connPc = "raised"
    /\ Len(outcomes) = 3
    /\ waits = <<1, 2>>

====
